---- MODULE Spec2Model ----
(***************************************************************************)
(* errsole-mongodb: connection lifecycle (constructor / init) and the      *)
(* write buffer (postLogs / flushLogs) of class ErrsoleMongoDB,            *)
(* src/lib/index.js lines 57-230.                                          *)
(*                                                                         *)
(* JavaScript runs every synchronous segment to completion; a task only    *)
(* yields at an await.  init and postLogs are split into one step per      *)
(* source line so that the order of their statements is visible; while     *)
(* such a segment is in progress (Busy) no other task takes a step.        *)
(* Log entries are numbered 1, 2, ... in the order they are posted.        *)
(*                                                                         *)
(* ensureCollections (lines 95-128) is followed statement by statement on  *)
(* a database of collections and indexes (SpecEnsure).  getLogs and        *)
(* searchLogs (lines 264-459) are followed from the filter to the query,   *)
(* the engine's find / sort / limit and the returned items, on drawn       *)
(* collections of stored documents (SpecQuery).  getMeta and getHostnames  *)
(* (lines 240-253, 470-479) are followed on collections filled by          *)
(* insertMany (SpecLookup).  ensureLogsTTL and the two TTL update          *)
(* functions (lines 488-523, 605-616) are followed storage call by         *)
(* storage call on the indexes ensureCollections leaves (SpecTTL).         *)
(* insertNotificationItem (lines 530-594) is followed operation by         *)
(* operation of its transaction, for calls that overlap (SpecNotify).      *)
(* The calls of the read operations and of the other users of this.db,     *)
(* made by the host at any moment from the construction on, are followed   *)
(* together with init, postLogs and the flushes (SpecUse).  LiveSpecCalls  *)
(* is Spec with the fairness of the event loop on every flushLogs call.    *)
(***************************************************************************)
EXTENDS Integers, Sequences, FiniteSets

\* ---- bounds of the model ------------------------------------------------
MaxEntries == 3      \* log entries posted in one behaviour
MaxPostLen == 2      \* length of the array given to one postLogs call
MaxFlushes == 2      \* flushLogs calls that are in flight at the same time

\* ---- program constants ---------------------------------------------------
DefaultBatchSize == 100   \* this.batchSize = 100
TestBatchSize == 2        \* errsole.batchSize = 2 (set by the host / tests)

BatchSizes == {TestBatchSize, DefaultBatchSize}
FlushIds == 1..MaxFlushes

VARIABLES
  client,                  \* this.client: "connecting", "connected" or "failed"
  isConnectionInProgress,  \* this.isConnectionInProgress
  db,                      \* this.db: "undefined" or "handle"
  pendingLogs,             \* this.pendingLogs
  batchSize,               \* this.batchSize
  timerScheduled,          \* the setInterval of init exists
  initPc,                  \* position of the init() task
  initError,               \* rejection reason of init(), "none" if none
  postPc,                  \* position of a running postLogs call
  postRet,                 \* value returned by the last postLogs call
  tasks,                   \* the flushLogs calls in flight, one record per slot
  settled,                 \* the flushLogs call that returned last and its result
  logs,                    \* documents stored in errsole_logs, in insertion order
  insertCalls,             \* history: the arguments of the insertMany calls, in call order
  trace,                   \* history: the startup events of init(), in order
  posted,                  \* history: number of entries given to postLogs so far
  failed,                  \* history: entries of batches whose insertMany rejected
  ensure,                  \* the database and the call that works on it: ensureCollections,
                           \* the TTL functions or insertNotificationItem (fields below)
  read                     \* the call of getLogs, searchLogs, getMeta or getHostnames

\* -- the database and a call of ensureCollections
\* names of the collections that exist in the database
collections == ensure.collections
\* the indexes that exist: records [coll, name, opts]
indexes == ensure.indexes
\* ensureCollections: the local collectionNames (line 97)
collectionNames == ensure.collectionNames
\* ensureCollections: where the call is (EcAt)
ecPc == ensure.ecPc
\* ensureCollections: number of the current run
ecRun == ensure.ecRun
\* history: createCollection calls of the current run, in order
created == ensure.created
\* history: createIndex calls of the current run, in order
indexCalls == ensure.indexCalls
\* history: the collections that existed when the current run was called
ecStart == ensure.ecStart
\* history: collections and indexes after the first completed run
ecFirst == ensure.ecFirst

\* -- a call of getLogs or searchLogs
\* the call that settled last: "none", "getLogs", "searchLogs", "rejected"
readOp == read.readOp
\* its argument filters (after line 266 / 369 has set limit)
filters == read.filters
\* its argument searchTerms
searchTerms == read.searchTerms
\* the query, sort order, limit and reversal it resolved
query == read.query
\* its result: the returned items
returned == read.returned
\* history: the filters as the caller passed them
given == read.given

\* the variables of the connection lifecycle and the write buffer
bufferVars == <<client, isConnectionInProgress, db, pendingLogs, batchSize, timerScheduled,
                initPc, initError, postPc, postRet, tasks, settled,
                insertCalls, trace, posted, failed>>
\* the variables of a call of ensureCollections, with the database
ensureVars == <<ensure>>
\* the variables of a call of getLogs or searchLogs
readVars == <<read>>
\* what the steps of init, postLogs and flushLogs leave alone
otherVars == <<ensureVars, readVars>>

vars == <<client, isConnectionInProgress, db, pendingLogs, batchSize, timerScheduled,
          initPc, initError, postPc, postRet, tasks, settled, logs,
          insertCalls, trace, posted, failed, ensureVars, readVars>>

\* ---- helpers ---------------------------------------------------------------
Range(s) == {s[i] : i \in 1..Len(s)}

RECURSIVE Concat(_)
Concat(ss) == IF ss = <<>> THEN <<>> ELSE Head(ss) \o Concat(Tail(ss))

Count(e, s) == Cardinality({i \in 1..Len(s) : s[i] = e})

\* the entries numbered a..b, in order
Entries(a, b) == [i \in 1..(b - a + 1) |-> a + i - 1]

\* faulty variant: Array.prototype.unshift(...items), the items go to the front
Push_Unshift(arr, items) == items \o arr

\* Array.prototype.push(...items): append in order at the end
Push(arr, items) == arr \o items

\* faulty variant: Array.prototype.slice, which copies and removes nothing
Splice_Slice(arr, start, deleteCount) ==
  [removed |-> SubSeq(arr, start + 1, start + deleteCount),
   rest    |-> arr]

\* Array.prototype.splice(start, deleteCount): the removed elements and what is left
Splice(arr, start, deleteCount) ==
  [removed |-> SubSeq(arr, start + 1, start + deleteCount),
   rest    |-> SubSeq(arr, 1, start) \o SubSeq(arr, start + deleteCount + 1, Len(arr))]

\* a flushLogs slot that holds no call
IdleTask == [pc |-> "idle", batch |-> <<>>, trigger |-> "none"]

\* the promise of a flushLogs call: how it settled, with which value, after
\* how many storage calls
Settled(trig, how, val, n) == [trigger |-> trig, settle |-> how, value |-> val, calls |-> n]

\* a flushLogs call is in flight in slot f
InFlight(f) == tasks[f].pc # "idle"
Free == {f \in FlushIds : ~InFlight(f)}
FreeSlot == CHOOSE f \in Free : \A g \in Free : f <= g

\* a synchronous segment of init or postLogs is running
InitSyncPcs == {"l89", "l90", "l91", "l92"}
Busy == initPc \in InitSyncPcs \/ postPc # "idle"

\* position of a call of ensureCollections: at the listing, at a statement of
\* the body, resolved or rejected
EcAt(at, i) == [at |-> at, i |-> i]

\* no call of ensureCollections is followed, the database is not looked at
EnsureIdle ==
  ensure = [collections |-> {}, indexes |-> {}, collectionNames |-> {},
            ecPc |-> EcAt("idle", 0), ecRun |-> 0,
            created |-> <<>>, indexCalls |-> <<>>,
            ecStart |-> {}, ecFirst |-> <<>>]

\* no call of getLogs or searchLogs was made
ReadIdle ==
  read = [readOp |-> "none", filters |-> "none", searchTerms |-> <<>>,
          query |-> "none", returned |-> <<>>, given |-> "none"]

\* ---- constructor ---------------------------------------------------------
\* state after `new ErrsoleMongoDB(...)`: init() has run up to its first await
Init ==
  /\ client = "connecting"
  /\ isConnectionInProgress = TRUE
  /\ db = "undefined"
  /\ pendingLogs = <<>>
  /\ batchSize \in BatchSizes
  /\ timerScheduled = FALSE
  /\ initPc = "connect"
  /\ initError = "none"
  /\ postPc = "idle"
  /\ postRet = "none"
  /\ tasks = [f \in FlushIds |-> IdleTask]
  /\ settled = Settled("none", "none", "none", 0)
  /\ logs = <<>>
  /\ insertCalls = <<>>
  /\ trace = <<>>
  /\ posted = 0
  /\ failed = {}
  /\ EnsureIdle
  /\ ReadIdle

\* ---- flushLogs -----------------------------------------------------------
\* faulty variant: flushLogs without the wait loop
MustWait_Never == FALSE

\* line 217: the condition of the wait loop
MustWait == isConnectionInProgress

\* faulty variant: flushLogs without the early return for an empty batch
FlushClaim_NoEmptyCheck(f, trig) ==
  LET s == Splice(pendingLogs, 0, Len(pendingLogs)) IN
  /\ pendingLogs' = s.rest
  /\ tasks' = [tasks EXCEPT ![f] = [pc |-> "insert", batch |-> s.removed, trigger |-> trig]]
  /\ insertCalls' = Append(insertCalls, s.removed)
  /\ UNCHANGED settled

\* faulty variant: a flush takes no more than batchSize entries
FlushClaim_OneBatch(f, trig) ==
  LET n == IF Len(pendingLogs) > batchSize THEN batchSize ELSE Len(pendingLogs)
      s == Splice(pendingLogs, 0, n) IN
  /\ pendingLogs' = s.rest
  /\ IF Len(s.removed) = 0
       THEN /\ tasks' = [tasks EXCEPT ![f] = IdleTask]
            /\ settled' = Settled(trig, "resolved", "{}", 0)
            /\ UNCHANGED insertCalls
       ELSE /\ tasks' = [tasks EXCEPT ![f] =
                 [pc |-> "insert", batch |-> s.removed, trigger |-> trig]]
            /\ insertCalls' = Append(insertCalls, s.removed)
            /\ UNCHANGED settled

\* lines 220-229 up to the await: claim the buffer, return {} when it is
\* empty, otherwise call insertMany
FlushClaim(f, trig) ==
  LET s == Splice(pendingLogs, 0, Len(pendingLogs)) IN
  /\ pendingLogs' = s.rest
  /\ IF Len(s.removed) = 0
       THEN /\ tasks' = [tasks EXCEPT ![f] = IdleTask]
            /\ settled' = Settled(trig, "resolved", "{}", 0)
            /\ UNCHANGED insertCalls
       ELSE /\ tasks' = [tasks EXCEPT ![f] =
                 [pc |-> "insert", batch |-> s.removed, trigger |-> trig]]
            /\ insertCalls' = Append(insertCalls, s.removed)
            /\ UNCHANGED settled

\* a call of flushLogs() up to its first await or its return
FlushCall(f, trig) ==
  IF MustWait
    THEN /\ tasks' = [tasks EXCEPT ![f] = [pc |-> "poll", batch |-> <<>>, trigger |-> trig]]
         /\ UNCHANGED <<pendingLogs, insertCalls, settled>>
    ELSE FlushClaim(f, trig)

\* the 100ms timeout of line 218 elapses: test the loop condition again
PollWake(f) ==
  /\ ~Busy
  /\ tasks[f].pc = "poll"
  /\ IF MustWait
       THEN UNCHANGED <<tasks, pendingLogs, insertCalls, settled>>
       ELSE FlushClaim(f, tasks[f].trigger)
  /\ UNCHANGED <<client, isConnectionInProgress, db, batchSize, timerScheduled, initPc,
                 initError, postPc, postRet, logs, trace, posted, failed>>
  /\ UNCHANGED otherVars

\* faulty variant: the batch replaces the documents of the collection
InsertResolve_Replace(f) ==
  /\ ~Busy
  /\ tasks[f].pc = "insert"
  /\ logs' = tasks[f].batch
  /\ tasks' = [tasks EXCEPT ![f] = IdleTask]
  /\ settled' = Settled(tasks[f].trigger, "resolved", "{}", 1)
  /\ UNCHANGED <<client, isConnectionInProgress, db, pendingLogs, batchSize, timerScheduled,
                 initPc, initError, postPc, postRet, insertCalls, trace, posted, failed>>
  /\ UNCHANGED otherVars

\* insertMany resolves: the batch is stored, flushLogs returns {}
InsertResolve(f) ==
  /\ ~Busy
  /\ tasks[f].pc = "insert"
  /\ logs' = logs \o tasks[f].batch
  /\ tasks' = [tasks EXCEPT ![f] = IdleTask]
  /\ settled' = Settled(tasks[f].trigger, "resolved", "{}", 1)
  /\ UNCHANGED <<client, isConnectionInProgress, db, pendingLogs, batchSize, timerScheduled,
                 initPc, initError, postPc, postRet, insertCalls, trace, posted, failed>>
  /\ UNCHANGED otherVars

\* faulty variant: a catch block that puts the failed batch back in front of the buffer
CatchInsertError_Requeue(f) ==
  /\ tasks' = [tasks EXCEPT ![f] = IdleTask]
  /\ settled' = Settled(tasks[f].trigger, "resolved", "err", 1)
  /\ pendingLogs' = tasks[f].batch \o pendingLogs

\* lines 227-229: what the catch block does with the batch and the error
CatchInsertError(f) ==
  /\ tasks' = [tasks EXCEPT ![f] = IdleTask]
  /\ settled' = Settled(tasks[f].trigger, "resolved", "err", 1)
  /\ UNCHANGED pendingLogs

\* insertMany rejects: an ordered insert has stored the documents before the
\* failing one; flushLogs returns the error
InsertReject(f) ==
  /\ ~Busy
  /\ tasks[f].pc = "insert"
  /\ \E k \in 0..(Len(tasks[f].batch) - 1) :
        logs' = logs \o SubSeq(tasks[f].batch, 1, k)
  /\ failed' = failed \cup Range(tasks[f].batch)
  /\ CatchInsertError(f)
  /\ UNCHANGED <<client, isConnectionInProgress, db, batchSize, timerScheduled,
                 initPc, initError, postPc, postRet, insertCalls, trace, posted>>
  /\ UNCHANGED otherVars

\* the host calls flushLogs() itself
HostFlush ==
  /\ ~Busy
  /\ Free # {}
  /\ FlushCall(FreeSlot, "host")
  /\ UNCHANGED <<client, isConnectionInProgress, db, batchSize, timerScheduled, initPc,
                 initError, postPc, postRet, logs, trace, posted, failed>>
  /\ UNCHANGED otherVars

\* the interval of line 91 fires: () => this.flushLogs()
TimerFire ==
  /\ ~Busy
  /\ timerScheduled
  /\ Free # {}
  /\ FlushCall(FreeSlot, "timer")
  /\ UNCHANGED <<client, isConnectionInProgress, db, batchSize, timerScheduled, initPc,
                 initError, postPc, postRet, logs, trace, posted, failed>>
  /\ UNCHANGED otherVars

\* ---- postLogs ------------------------------------------------------------
\* faulty variant: flush only when the buffer has grown beyond the batch size
ShouldFlush_Strict(len) == len > batchSize

\* line 202: the condition under which postLogs calls flushLogs
ShouldFlush(len) == len >= batchSize

\* line 201: this.pendingLogs.push(...logEntries)
PostAppend(arr, logEntries) == Push(arr, logEntries)

PostPush ==
  /\ ~Busy
  /\ \E n \in 1..MaxPostLen :
       /\ posted + n <= MaxEntries
       /\ ShouldFlush(Len(pendingLogs) + n) => Free # {}
       /\ pendingLogs' = PostAppend(pendingLogs, Entries(posted + 1, posted + n))
       /\ posted' = posted + n
  /\ postPc' = "l202"
  /\ UNCHANGED <<client, isConnectionInProgress, db, batchSize, timerScheduled, initPc,
                 initError, postRet, tasks, settled, logs, insertCalls, trace, failed>>
  /\ UNCHANGED otherVars

\* lines 202-205: flush when the batch size is reached, return {}
PostCheck ==
  /\ postPc = "l202"
  /\ IF ShouldFlush(Len(pendingLogs))
       THEN FlushCall(FreeSlot, "size")
       ELSE UNCHANGED <<pendingLogs, tasks, insertCalls, settled>>
  /\ postPc' = "idle"
  /\ postRet' = "{}"
  /\ UNCHANGED <<client, isConnectionInProgress, db, batchSize, timerScheduled, initPc,
                 initError, logs, trace, posted, failed>>
  /\ UNCHANGED otherVars

\* ---- init ----------------------------------------------------------------
\* faulty variant: the flush interval is set up as soon as the client is connected
InitConnectResolve_TimerEarly ==
  /\ ~Busy
  /\ initPc = "connect"
  /\ client' = "connected"
  /\ db' = "handle"
  /\ timerScheduled' = TRUE
  /\ initPc' = "ensureCollections"
  /\ trace' = trace \o <<"connect", "timer", "ensureCollections:call">>
  /\ UNCHANGED <<isConnectionInProgress, pendingLogs, batchSize,
                 initError, postPc, postRet, tasks, settled, logs, insertCalls, posted, failed>>
  /\ UNCHANGED otherVars

\* line 86 resolves; line 87 sets this.db; line 88 calls ensureCollections
InitConnectResolve ==
  /\ ~Busy
  /\ initPc = "connect"
  /\ client' = "connected"
  /\ db' = "handle"
  /\ initPc' = "ensureCollections"
  /\ trace' = trace \o <<"connect", "ensureCollections:call">>
  /\ UNCHANGED <<isConnectionInProgress, pendingLogs, batchSize, timerScheduled,
                 initError, postPc, postRet, tasks, settled, logs, insertCalls, posted, failed>>
  /\ UNCHANGED otherVars

\* faulty variant: the connect error is caught and logged, and init goes on
InitConnectReject_Swallow ==
  /\ ~Busy
  /\ initPc = "connect"
  /\ client' = "failed"
  /\ initPc' = "ensureCollections"
  /\ trace' = Append(trace, "ensureCollections:call")
  /\ UNCHANGED <<isConnectionInProgress, db, pendingLogs, batchSize, timerScheduled,
                 initError, postPc, postRet, tasks, settled, logs, insertCalls, posted, failed>>
  /\ UNCHANGED otherVars

\* line 86 rejects: nothing catches, init() rejects with the error
InitConnectReject ==
  /\ ~Busy
  /\ initPc = "connect"
  /\ client' = "failed"
  /\ initPc' = "rejected"
  /\ initError' = "connect"
  /\ UNCHANGED <<isConnectionInProgress, db, pendingLogs, batchSize, timerScheduled,
                 postPc, postRet, tasks, settled, logs, insertCalls, trace, posted, failed>>
  /\ UNCHANGED otherVars

\* line 88 resolves
InitEnsureCollectionsResolve ==
  /\ ~Busy
  /\ initPc = "ensureCollections"
  /\ initPc' = "l89"
  /\ trace' = Append(trace, "ensureCollections")
  /\ UNCHANGED <<client, isConnectionInProgress, db, pendingLogs, batchSize, timerScheduled,
                 initError, postPc, postRet, tasks, settled, logs, insertCalls, posted, failed>>
  /\ UNCHANGED otherVars

\* faulty variant: the flag is cleared in a finally block, also when init fails
InitEnsureCollectionsReject_Finally ==
  /\ ~Busy
  /\ initPc = "ensureCollections"
  /\ isConnectionInProgress' = FALSE
  /\ initPc' = "rejected"
  /\ initError' = "ensureCollections"
  /\ UNCHANGED <<client, db, pendingLogs, batchSize, timerScheduled,
                 postPc, postRet, tasks, settled, logs, insertCalls, trace, posted, failed>>
  /\ UNCHANGED otherVars

\* line 88 rejects: init() rejects with the error
InitEnsureCollectionsReject ==
  /\ ~Busy
  /\ initPc = "ensureCollections"
  /\ initPc' = "rejected"
  /\ initError' = "ensureCollections"
  /\ UNCHANGED <<client, isConnectionInProgress, db, pendingLogs, batchSize, timerScheduled,
                 postPc, postRet, tasks, settled, logs, insertCalls, trace, posted, failed>>
  /\ UNCHANGED otherVars

\* line 89: this.isConnectionInProgress = false
InitSetFlag ==
  /\ initPc = "l89"
  /\ isConnectionInProgress' = FALSE
  /\ initPc' = "l90"
  /\ trace' = Append(trace, "flag")
  /\ UNCHANGED <<client, db, pendingLogs, batchSize, timerScheduled, initError, postPc,
                 postRet, tasks, settled, logs, insertCalls, posted, failed>>
  /\ UNCHANGED otherVars

\* line 90: this.emit('ready')
InitEmitReady ==
  /\ initPc = "l90"
  /\ initPc' = "l91"
  /\ trace' = Append(trace, "ready")
  /\ UNCHANGED <<client, isConnectionInProgress, db, pendingLogs, batchSize, timerScheduled,
                 initError, postPc, postRet, tasks, settled, logs, insertCalls, posted, failed>>
  /\ UNCHANGED otherVars

\* faulty variant: init without the periodic flush
InitSetInterval_Missing ==
  /\ initPc = "l91"
  /\ initPc' = "l92"
  /\ UNCHANGED <<client, isConnectionInProgress, db, pendingLogs, batchSize, timerScheduled,
                 initError, postPc, postRet, tasks, settled, logs, insertCalls, trace, posted, failed>>
  /\ UNCHANGED otherVars

\* line 91: setInterval(() => this.flushLogs(), this.flushInterval)
InitSetInterval ==
  /\ initPc = "l91"
  /\ timerScheduled' = TRUE
  /\ initPc' = "l92"
  /\ trace' = Append(trace, "timer")
  /\ UNCHANGED <<client, isConnectionInProgress, db, pendingLogs, batchSize, initError,
                 postPc, postRet, tasks, settled, logs, insertCalls, posted, failed>>
  /\ UNCHANGED otherVars

\* line 92: ensureLogsTTL() is called and awaited
InitCallEnsureLogsTTL ==
  /\ initPc = "l92"
  /\ initPc' = "ensureLogsTTL"
  /\ trace' = Append(trace, "ensureLogsTTL")
  /\ UNCHANGED <<client, isConnectionInProgress, db, pendingLogs, batchSize, timerScheduled,
                 initError, postPc, postRet, tasks, settled, logs, insertCalls, posted, failed>>
  /\ UNCHANGED otherVars

\* line 92 resolves (ensureLogsTTL catches every error and returns {}): init() resolves
InitEnsureLogsTTLResolve ==
  /\ ~Busy
  /\ initPc = "ensureLogsTTL"
  /\ initPc' = "done"
  /\ UNCHANGED <<client, isConnectionInProgress, db, pendingLogs, batchSize, timerScheduled,
                 initError, postPc, postRet, tasks, settled, logs, insertCalls, trace,
                 posted, failed>>
  /\ UNCHANGED otherVars

\* ---- specification -------------------------------------------------------
InitStep ==
  \/ InitConnectResolve
  \/ InitConnectReject
  \/ InitEnsureCollectionsResolve
  \/ InitEnsureCollectionsReject
  \/ InitSetFlag
  \/ InitEmitReady
  \/ InitSetInterval
  \/ InitCallEnsureLogsTTL
  \/ InitEnsureLogsTTLResolve

FlushStep == \E f \in FlushIds : PollWake(f) \/ InsertResolve(f) \/ InsertReject(f)

Next ==
  \/ InitStep
  \/ PostPush
  \/ PostCheck
  \/ HostFlush
  \/ TimerFire
  \/ FlushStep

Spec == Init /\ [][Next]_vars

TypeOK ==
  /\ client \in {"connecting", "connected", "failed"}
  /\ isConnectionInProgress \in BOOLEAN
  /\ db \in {"undefined", "handle"}
  /\ batchSize \in BatchSizes
  /\ timerScheduled \in BOOLEAN
  /\ posted \in 0..MaxEntries
  /\ \A f \in FlushIds : tasks[f].pc \in {"idle", "poll", "insert"}
  /\ settled.settle \in {"none", "resolved"}

\* Scheduling of the event loop: a due timer callback, a timeout wake-up and
\* a settled storage call are eventually run, and a synchronous segment that
\* has started runs to its end.
SyncStep == InitSetFlag \/ InitEmitReady \/ InitSetInterval \/ InitCallEnsureLogsTTL \/ PostCheck

LiveSpec ==
  /\ Init /\ [][Next]_vars
  /\ WF_vars(TimerFire)
  /\ WF_vars(FlushStep)
  /\ WF_vars(SyncStep)

\* The same scheduling seen call by call: the timeout a call waits on
\* elapses and the insertMany it awaits settles, whatever other calls do.
FlushStepOf(f) == PollWake(f) \/ InsertResolve(f) \/ InsertReject(f)

LiveSpecCalls ==
  /\ Init /\ [][Next]_vars
  /\ WF_vars(SyncStep)
  /\ \A f \in FlushIds : WF_vars(FlushStepOf(f))

\* order of the startup events of a run of init()
InitOrder == <<"connect", "ensureCollections:call", "ensureCollections",
               "flag", "ready", "timer", "ensureLogsTTL">>

\* ---- ensureCollections ---------------------------------------------------
MaxEnsureRuns == 2   \* calls of ensureCollections in one behaviour

\* lines 74-77: the collection names
RequiredCollections == {"errsole_logs", "errsole_users", "errsole_config",
                        "errsole_notifications"}

Create(c) == [op |-> "create", coll |-> c, name |-> "", opts |-> ""]
Index(c, n, o) == [op |-> "index", coll |-> c, name |-> n, opts |-> o]
Drop(c, n) == [op |-> "drop", coll |-> c, name |-> n, opts |-> ""]

\* lines 99-127: the statements of ensureCollections after listCollections;
\* an index is named as the driver names it from its key
EcBody == <<
  Create("errsole_logs"),
  Index("errsole_logs", "source_1_level_1__id_1", "plain"),
  Index("errsole_logs", "source_1_level_1_timestamp_1", "plain"),
  Index("errsole_logs", "hostname_1_pid_1__id_1", "plain"),
  Index("errsole_logs", "message_text", "plain"),
  Index("errsole_logs", "errsole_id_1", "plain"),
  Create("errsole_users"),
  Index("errsole_users", "email_1", "unique"),
  Create("errsole_config"),
  Drop("errsole_config", "name_1"),
  Index("errsole_config", "key_1", "unique"),
  Create("errsole_notifications"),
  Index("errsole_notifications", "hostname_1_hashed_message_1_created_at_1", "plain"),
  Index("errsole_notifications", "created_at_1", "plain") >>

\* the createIndex statements of the body, in order
RequiredIndexCalls == SelectSeq(EcBody, LAMBDA st : st.op = "index")
IndexOf(st) == [coll |-> st.coll, name |-> st.name, opts |-> st.opts]
RequiredIndexes(c) == {IndexOf(EcBody[i]) : i \in {j \in 1..Len(EcBody) :
                          EcBody[j].op = "index" /\ EcBody[j].coll = c}}

\* faulty variant: createCollection is called whether or not the collection exists
Missing_Always(c) == TRUE

\* lines 99, 109, 114, 122: !collectionNames.includes(name)
Missing(c) == c \notin collectionNames

\* the engine refuses createIndex when an index of that name exists with other options
IndexConflict(st) == \E ix \in indexes : ix.coll = st.coll /\ ix.name = st.name /\ ix.opts # st.opts

\* the statement at ecPc issues a storage call whose rejection rejects ensureCollections
EcAwaits ==
  \/ ecPc.at = "list"
  \/ /\ ecPc.at = "body"
     /\ \/ EcBody[ecPc.i].op = "index"
        \/ EcBody[ecPc.i].op = "create" /\ Missing(EcBody[ecPc.i].coll)

\* state after init has called ensureCollections (line 88), on a database that
\* holds any of the collections, with or without the indexes of an earlier run
\* and the legacy index name_1
InitEnsure ==
  /\ client = "connected"
  /\ isConnectionInProgress = TRUE
  /\ db = "handle"
  /\ pendingLogs = <<>>
  /\ batchSize = DefaultBatchSize
  /\ timerScheduled = FALSE
  /\ initPc = "ensureCollections"
  /\ initError = "none"
  /\ postPc = "idle"
  /\ postRet = "none"
  /\ tasks = [f \in FlushIds |-> IdleTask]
  /\ settled = Settled("none", "none", "none", 0)
  /\ logs = <<>>
  /\ insertCalls = <<>>
  /\ trace = <<"connect", "ensureCollections:call">>
  /\ posted = 0
  /\ failed = {}
  /\ \E cs \in SUBSET RequiredCollections, earlier \in BOOLEAN, legacy \in BOOLEAN :
       ensure =
         [collections |-> cs,
          indexes |->
            (IF earlier THEN UNION {RequiredIndexes(c) : c \in cs} ELSE {})
            \cup (IF legacy /\ "errsole_config" \in cs
                    THEN {[coll |-> "errsole_config", name |-> "name_1", opts |-> "unique"]}
                    ELSE {}),
          collectionNames |-> {},
          ecPc |-> EcAt("list", 0),
          ecRun |-> 1,
          created |-> <<>>,
          indexCalls |-> <<>>,
          ecStart |-> cs,
          ecFirst |-> <<>>]
  /\ ReadIdle

\* ensureCollections() is called again (by the host or a test) and awaits line 96
EcCall ==
  /\ ecPc.at \in {"done", "rejected"}
  /\ ecRun < MaxEnsureRuns
  /\ ensure' = [ensure EXCEPT !.ecRun = ecRun + 1,
                               !.ecPc = EcAt("list", 0),
                               !.created = <<>>,
                               !.indexCalls = <<>>,
                               !.ecStart = collections]
  /\ UNCHANGED <<bufferVars, logs, readVars>>

\* lines 96-97: listCollections resolves
EcList ==
  /\ ecPc.at = "list"
  /\ ensure' = [ensure EXCEPT !.collectionNames = collections,
                               !.ecPc = EcAt("body", 1)]
  /\ UNCHANGED <<bufferVars, logs, readVars>>

\* the database and the call after one statement of the body whose storage
\* call, if any, resolves
EcEffect(st) ==
  CASE st.op = "create" ->
         IF Missing(st.coll)
           THEN [ensure EXCEPT !.collections = collections \cup {st.coll},
                               !.created = Append(created, st.coll)]
           ELSE ensure
    [] st.op = "index" ->
         [ensure EXCEPT !.indexes = indexes \cup {IndexOf(st)},
                        !.indexCalls = Append(indexCalls, st)]
    [] st.op = "drop" ->
         \* lines 117-119: a missing index makes dropIndex throw, which is ignored
         [ensure EXCEPT !.indexes =
            {ix \in indexes : ~(ix.coll = st.coll /\ ix.name = st.name)}]

\* one statement of lines 99-127 completes; after the last one the call resolves
EcStep ==
  /\ ecPc.at = "body"
  /\ LET st == EcBody[ecPc.i]
         after == EcEffect(st)
         last == ecPc.i = Len(EcBody)
     IN
       /\ st.op = "create" /\ Missing(st.coll) => st.coll \notin collections
       /\ st.op = "index" => ~IndexConflict(st)
       /\ ensure' =
            [after EXCEPT
               !.ecPc = IF last THEN EcAt("done", 0) ELSE EcAt("body", ecPc.i + 1),
               !.ecFirst = IF last /\ ecFirst = <<>>
                             THEN <<[collections |-> after.collections,
                                     indexes |-> after.indexes]>>
                             ELSE ecFirst]
  /\ UNCHANGED <<bufferVars, logs, readVars>>

\* a storage call of ensureCollections rejects (a createCollection of an
\* existing collection and a createIndex with other options always do):
\* nothing catches, ensureCollections rejects
EcReject ==
  /\ EcAwaits
  /\ ensure' =
       [ensure EXCEPT
          !.ecPc = EcAt("rejected", 0),
          !.created = IF ecPc.at = "body" /\ EcBody[ecPc.i].op = "create"
                        THEN Append(created, EcBody[ecPc.i].coll) ELSE created,
          !.indexCalls = IF ecPc.at = "body" /\ EcBody[ecPc.i].op = "index"
                           THEN Append(indexCalls, EcBody[ecPc.i]) ELSE indexCalls]
  /\ UNCHANGED <<bufferVars, logs, readVars>>

NextEnsure == EcCall \/ EcList \/ EcStep \/ EcReject

SpecEnsure == InitEnsure /\ [][NextEnsure]_vars

\* ---- getLogs / searchLogs --------------------------------------------------
MaxDocs == 3         \* stored log documents in a drawn collection
MaxTime == 3         \* distinct timestamps of drawn documents
defaultLimit == 100  \* lines 265, 368

\* an optional field of a filter or query: <<>> when absent, <<v>> when given
None == <<>>
Some(v) == <<v>>

\* JavaScript truthiness of an optional number, string, array
TruthyNum(o) == o # None /\ o[1] # 0
TruthyStr(o) == o # None /\ o[1] # ""
TruthyArr(o) == o # None

\* _id.toString() (line 351) and new ObjectId(hex) (lines 318, 322): an id is
\* stored as an ordered value and travels as its hexadecimal string
ToString(n) == [hex |-> n]
ObjectId(s) == s.hex

\* Number(filters.errsole_id) (line 307): a number is itself, a numeric string
\* its value
NumberOf(v) == v.val
TruthyId(o) == o # None /\ (o[1].type = "number" => o[1].val # 0)

\* the documents of errsole_logs are kept in `logs`, in _id order
LogDoc(h, p, s, l, e, words) ==
  [hostname |-> h, pid |-> p, source |-> s, level |-> l, errsole_id |-> e,
   message |-> words, meta |-> "meta"]
Stored(d, id, t) ==
  [_id |-> id, timestamp |-> t, hostname |-> d.hostname, pid |-> d.pid,
   source |-> d.source, level |-> d.level, errsole_id |-> d.errsole_id,
   message |-> d.message, meta |-> d.meta]

DocA == LogDoc("h1", 1, "s1", "info", 1, {"a", "b"})
DocB == LogDoc("h2", 1, "s1", "error", 2, {"a"})
DocC == LogDoc("h1", 2, "s2", "info", 3, {"b"})
DocKinds == {DocA, DocB, DocC}

\* collections whose documents differ in timestamp only (any order, with ties)
TimedLogs ==
  UNION {{[i \in 1..n |-> Stored(DocA, i, ts[i])] : ts \in [1..n -> 1..MaxTime]} :
            n \in 0..MaxDocs}
\* collections of different documents, timestamps growing with _id
KindLogs ==
  UNION {{[i \in 1..n |-> Stored(ks[i], i, i)] : ks \in [1..n -> DocKinds]} :
            n \in 1..MaxDocs}
\* one collection larger than the default limit
BigLogs == [i \in 1..(defaultLimit + 1) |-> Stored(DocA, i, i)]
LogSets == TimedLogs \cup KindLogs \cup {BigLogs}

\* a LogFilter object; every field is optional
Filter(h, hs, p, ss, ls, lj, e, lt, gt, lte, gte, lim) ==
  [hostname |-> h, hostnames |-> hs, pid |-> p, sources |-> ss, levels |-> ls,
   level_json |-> lj, errsole_id |-> e, lt_id |-> lt, gt_id |-> gt,
   lte_timestamp |-> lte, gte_timestamp |-> gte, limit |-> lim]

Pair(s, l) == [source |-> s, level |-> l]
Limits == {None, Some(0), Some(1), Some(2)}

\* filters that vary the cursor fields and the limit
CursorFilters ==
  {Filter(None, None, None, None, None, None, None, lt, gt, lte, gte, lim) :
     lt \in {None, Some(ToString(3))}, gt \in {None, Some(ToString(1))},
     lte \in {None, Some(2), Some(3)}, gte \in {None, Some(1), Some(2)}, lim \in Limits}
\* filters that vary the hostname, pid, source and level selectors
SelectorFilters ==
  {Filter(h, hs, p, ss, ls, None, None, None, None, None, None, None) :
     h \in {None, Some("h1")},
     hs \in {None, Some(<<>>), Some(<<"h2">>)},
     p \in {None, Some(1)},
     ss \in {None, Some(<<"s1">>)},
     ls \in {None, Some(<<"info", "debug">>)}}
\* filters that vary level_json and errsole_id beside one selector and one cursor
OrFilters ==
  {Filter(h, None, None, None, None, lj, e, cur[1], None, None, cur[2], None) :
     h \in {None, Some("h1")},
     lj \in {None, Some(<<>>), Some(<<Pair("s1", "error")>>),
             Some(<<Pair("s1", "info"), Pair("s2", "error")>>)},
     e \in {None, Some([type |-> "number", val |-> 2]),
            Some([type |-> "string", val |-> 3])},
     cur \in {<<None, None>>, <<Some(ToString(3)), None>>, <<None, Some(2)>>}}
Filters == CursorFilters \cup SelectorFilters \cup OrFilters

SearchTermLists == {<<>>, <<"a">>, <<"a", "b">>}
\* the calls of searchLogs: one term with every filter, no term and two terms
\* with the selector filters
SearchCalls ==
  ({<<"a">>} \X Filters) \cup (SearchTermLists \X SelectorFilters)

Min(a, b) == IF a <= b THEN a ELSE b
Reverse(seq) == [i \in 1..Len(seq) |-> seq[Len(seq) + 1 - i]]
Map(seq, F(_)) == [i \in 1..Len(seq) |-> F(seq[i])]

\* faulty variant: a limit of 0 is passed on as given
EffectiveLimit_ZeroKept(f) == IF f.limit # None THEN f.limit[1] ELSE defaultLimit

\* lines 266, 369: filters.limit || defaultLimit
EffectiveLimit(f) == IF TruthyNum(f.limit) THEN f.limit[1] ELSE defaultLimit

\* lines 371-372: each term in double quotes, joined by single spaces
RECURSIVE JoinQuoted(_)
JoinQuoted(terms) ==
  IF terms = <<>> THEN <<>>
  ELSE <<"\"", terms[1], "\"">> \o
       (IF Len(terms) = 1 THEN <<>> ELSE <<" ">> \o JoinQuoted(Tail(terms)))

\* faulty variant: the text predicate is left out of the query
TextClause_Dropped(op, terms) == None

\* line 372: searchLogs starts the query with { $text: { $search } }
TextClause(op, terms) == IF op = "searchLogs" THEN Some(JoinQuoted(terms)) ELSE None

\* lines 270-276, 375-381: hostnames, when not empty, replaces hostname
HostnameClause(f) ==
  IF TruthyArr(f.hostnames) /\ Len(f.hostnames[1]) > 0 THEN Some(f.hostnames[1])
  ELSE IF TruthyStr(f.hostname) THEN Some(<<f.hostname[1]>>)
  ELSE None

\* lines 291-293: { $and: [{ source }, { level }] }
AndCondition(p) == [source |-> Some(p.source), level |-> Some(p.level), errsole_id |-> None]
\* lines 299-302: { source, level }
LevelCondition(p) == [source |-> Some(p.source), level |-> Some(p.level), errsole_id |-> None]
\* line 307: { errsole_id: Number(filters.errsole_id) }
IdCondition(e) == [source |-> None, level |-> None, errsole_id |-> Some(NumberOf(e))]

\* lines 297-308: orConditions
OrConditions(f) ==
  (IF TruthyArr(f.level_json) /\ Len(f.level_json[1]) > 0
     THEN Map(f.level_json[1], LevelCondition) ELSE <<>>)
  \o (IF TruthyId(f.errsole_id) THEN <<IdCondition(f.errsole_id[1])>> ELSE <<>>)

\* faulty variant: the errsole_id condition replaces the level pairs
OrClause_IdOnly(f) ==
  IF TruthyId(f.errsole_id) THEN Some(<<IdCondition(f.errsole_id[1])>>)
  ELSE IF TruthyArr(f.level_json) THEN Some(Map(f.level_json[1], AndCondition))
  ELSE None

\* lines 290-312: query.$or
OrClause(f) ==
  IF (TruthyArr(f.level_json) \/ TruthyId(f.errsole_id)) /\ Len(OrConditions(f)) > 0
    THEN Some(OrConditions(f))
  ELSE IF TruthyArr(f.level_json) THEN Some(Map(f.level_json[1], AndCondition))
  ELSE None

\* faulty variant: without a cursor both calls fetch in ascending id order
DefaultSort_Ascending(op) == [key |-> "_id", dir |-> 1]

\* lines 314-315 and 418-419: the sort order before a cursor is looked at
DefaultSort(op) == IF op = "searchLogs" THEN [key |-> "timestamp", dir |-> -1]
                                        ELSE [key |-> "_id", dir |-> -1]

Cursor(id, timestamp, sortOrder, shouldReverse) ==
  [id |-> id, timestamp |-> timestamp, sortOrder |-> sortOrder, shouldReverse |-> shouldReverse]

\* faulty variant: the result of the lt_id branch is not reversed
LtCursor_NoReverse(f) ==
  Cursor(Some([op |-> "$lt", val |-> ObjectId(f.lt_id[1])]), None,
         [key |-> "_id", dir |-> -1], FALSE)

\* lines 317-320, 421-424
LtCursor(f) ==
  Cursor(Some([op |-> "$lt", val |-> ObjectId(f.lt_id[1])]), None,
         [key |-> "_id", dir |-> -1], TRUE)

\* faulty variant: the gt_id branch fetches in descending order and reverses
GtCursor_Descending(f) ==
  Cursor(Some([op |-> "$gt", val |-> ObjectId(f.gt_id[1])]), None,
         [key |-> "_id", dir |-> -1], TRUE)

\* lines 321-324, 425-428
GtCursor(f) ==
  Cursor(Some([op |-> "$gt", val |-> ObjectId(f.gt_id[1])]), None,
         [key |-> "_id", dir |-> 1], FALSE)

\* faulty variant: lte_timestamp decides the order when both bounds are given
TimestampCursor_LteWins(f) ==
  Cursor(None,
         Some([lte |-> IF TruthyNum(f.lte_timestamp) THEN f.lte_timestamp ELSE None,
               gte |-> IF TruthyNum(f.gte_timestamp) THEN f.gte_timestamp ELSE None]),
         IF TruthyNum(f.lte_timestamp) THEN [key |-> "timestamp", dir |-> -1]
                                       ELSE [key |-> "timestamp", dir |-> 1],
         TruthyNum(f.lte_timestamp))

\* lines 325-337, 429-441: the timestamp branch; gte_timestamp is looked at last
TimestampCursor(f) ==
  Cursor(None,
         Some([lte |-> IF TruthyNum(f.lte_timestamp) THEN f.lte_timestamp ELSE None,
               gte |-> IF TruthyNum(f.gte_timestamp) THEN f.gte_timestamp ELSE None]),
         IF TruthyNum(f.gte_timestamp) THEN [key |-> "timestamp", dir |-> 1]
                                       ELSE [key |-> "timestamp", dir |-> -1],
         ~TruthyNum(f.gte_timestamp))

\* faulty variant: gt_id is looked at before lt_id
ResolveCursor_GtFirst(op, f) ==
  IF TruthyArr(f.gt_id) THEN GtCursor(f)
  ELSE IF TruthyArr(f.lt_id) THEN LtCursor(f)
  ELSE IF TruthyNum(f.lte_timestamp) \/ TruthyNum(f.gte_timestamp) THEN TimestampCursor(f)
  ELSE Cursor(None, None, DefaultSort(op), TRUE)

\* lines 314-337, 418-441
ResolveCursor(op, f) ==
  IF TruthyArr(f.lt_id) THEN LtCursor(f)
  ELSE IF TruthyArr(f.gt_id) THEN GtCursor(f)
  ELSE IF TruthyNum(f.lte_timestamp) \/ TruthyNum(f.gte_timestamp) THEN TimestampCursor(f)
  ELSE Cursor(None, None, DefaultSort(op), TRUE)

\* lines 266-337, 369-441: the query, sort order, reversal and limit for a call
BuildQuery(op, terms, f) ==
  [text |-> TextClause(op, terms),
   hostname |-> HostnameClause(f),
   pid |-> IF TruthyNum(f.pid) THEN f.pid ELSE None,
   source |-> IF TruthyArr(f.sources) THEN f.sources ELSE None,
   level |-> IF TruthyArr(f.levels) THEN f.levels ELSE None,
   or |-> OrClause(f),
   id |-> ResolveCursor(op, f).id,
   timestamp |-> ResolveCursor(op, f).timestamp,
   sortOrder |-> ResolveCursor(op, f).sortOrder,
   shouldReverse |-> ResolveCursor(op, f).shouldReverse,
   limit |-> EffectiveLimit(f)]

\* ---- the storage engine's find / sort / limit ------------------------------
\* the phrases of a $search string: the parts between pairs of double quotes
RECURSIVE Phrases(_)
Phrases(search) ==
  IF Len(search) < 3 THEN {}
  ELSE IF search[1] = "\"" /\ search[3] = "\""
    THEN {search[2]} \cup Phrases(SubSeq(search, 4, Len(search)))
  ELSE Phrases(Tail(search))

\* $text: a document matches when its message holds every phrase; an empty
\* search string matches nothing
TextMatch(search, d) ==
  /\ Phrases(search) # {}
  /\ \A ph \in Phrases(search) : ph \in d.message

ConditionMatch(c, d) ==
  /\ c.source # None => d.source = c.source[1]
  /\ c.level # None => d.level = c.level[1]
  /\ c.errsole_id # None => d.errsole_id = c.errsole_id[1]

\* find(query): every field of the query must hold of the document
Matches(q, d) ==
  /\ q.text # None => TextMatch(q.text[1], d)
  /\ q.hostname # None => d.hostname \in Range(q.hostname[1])
  /\ q.pid # None => d.pid = q.pid[1]
  /\ q.source # None => d.source \in Range(q.source[1])
  /\ q.level # None => d.level \in Range(q.level[1])
  /\ q.or # None => \E i \in 1..Len(q.or[1]) : ConditionMatch(q.or[1][i], d)
  /\ q.id # None => IF q.id[1].op = "$lt" THEN d._id < q.id[1].val ELSE d._id > q.id[1].val
  /\ q.timestamp # None =>
       /\ q.timestamp[1].lte # None => d.timestamp <= q.timestamp[1].lte[1]
       /\ q.timestamp[1].gte # None => d.timestamp >= q.timestamp[1].gte[1]

\* the engine refuses an $or with no condition
QueryError(q) == q.or = Some(<<>>)

RemoveAt(seq, i) == SubSeq(seq, 1, i - 1) \o SubSeq(seq, i + 1, Len(seq))
RECURSIVE Perms(_)
Perms(seq) ==
  IF Len(seq) <= 1 THEN {seq}
  ELSE UNION {{<<seq[i]>> \o r : r \in Perms(RemoveAt(seq, i))} : i \in 1..Len(seq)}

TopTime(seq) ==
  IF seq = <<>> THEN 0
  ELSE CHOOSE t \in {seq[i].timestamp : i \in 1..Len(seq)} :
         \A i \in 1..Len(seq) : seq[i].timestamp <= t

\* every order by ascending timestamp: documents of equal timestamp come in
\* any order
RECURSIVE ByTime(_, _, _)
ByTime(seq, t, top) ==
  IF t > top THEN {<<>>}
  ELSE {g \o r : g \in Perms(SelectSeq(seq, LAMBDA d : d.timestamp = t)),
                 r \in ByTime(seq, t + 1, top)}

\* sort(sortOrder) of documents given in _id order
Sorted(seq, sortOrder) ==
  IF sortOrder.key = "_id"
    THEN {IF sortOrder.dir = 1 THEN seq ELSE Reverse(seq)}
    ELSE {IF sortOrder.dir = 1 THEN x ELSE Reverse(x) : x \in ByTime(seq, 1, TopTime(seq))}

\* find(query, { projection: { meta: 0 } }).sort(sortOrder).limit(limit).toArray()
\* on the documents docs
FindIn(docs, q) ==
  {SubSeq(x, 1, Min(q.limit, Len(x))) :
     x \in Sorted(SelectSeq(docs, LAMBDA d : Matches(q, d)), q.sortOrder)}

\* the same on the stored documents
Find(q) == FindIn(logs, q)

\* faulty variant: the documents are reversed whatever shouldReverse says
ApplyReverse_Always(q, documents) == Reverse(documents)

\* lines 345-347, 449-451
ApplyReverse(q, documents) == IF q.shouldReverse THEN Reverse(documents) ELSE documents

\* lines 349-352, 453-456, with the projection of line 340
Format(doc) ==
  [id |-> ToString(doc._id), timestamp |-> doc.timestamp, hostname |-> doc.hostname,
   pid |-> doc.pid, source |-> doc.source, level |-> doc.level,
   errsole_id |-> doc.errsole_id, message |-> doc.message]

\* state after init has resolved on a collection of stored logs
InitQuery ==
  /\ client = "connected"
  /\ isConnectionInProgress = FALSE
  /\ db = "handle"
  /\ pendingLogs = <<>>
  /\ batchSize = DefaultBatchSize
  /\ timerScheduled = TRUE
  /\ initPc = "done"
  /\ initError = "none"
  /\ postPc = "idle"
  /\ postRet = "none"
  /\ tasks = [f \in FlushIds |-> IdleTask]
  /\ settled = Settled("none", "none", "none", 0)
  /\ logs \in LogSets
  /\ insertCalls = <<>>
  /\ trace = InitOrder
  /\ posted = 0
  /\ failed = {}
  /\ EnsureIdle
  /\ ReadIdle

\* one call: the filter object gets its limit, the query is built, the find
\* resolves or rejects
Read(op, terms, f) ==
  /\ LET q == BuildQuery(op, terms, f)
         call == [readOp |-> op,
                  given |-> f,
                  filters |-> [f EXCEPT !.limit = Some(EffectiveLimit(f))],
                  searchTerms |-> terms,
                  query |-> q,
                  returned |-> <<>>]
     IN
       IF QueryError(q)
         THEN read' = [call EXCEPT !.readOp = "rejected"]
         ELSE \E documents \in Find(q) :
                read' = [call EXCEPT !.returned = Map(ApplyReverse(q, documents), Format)]
  /\ UNCHANGED <<bufferVars, logs, ensureVars>>

GetLogs ==
  /\ readOp = "none"
  /\ \E f \in Filters : Read("getLogs", <<>>, f)

SearchLogs ==
  /\ readOp = "none"
  /\ \E call \in SearchCalls : Read("searchLogs", call[1], call[2])

\* the caller has taken the result
ReadReturn ==
  /\ readOp # "none"
  /\ read' = [readOp |-> "none", filters |-> "none", searchTerms |-> <<>>,
              query |-> "none", returned |-> <<>>, given |-> "none"]
  /\ UNCHANGED <<bufferVars, logs, ensureVars>>

NextQuery == GetLogs \/ SearchLogs \/ ReadReturn

SpecQuery == InitQuery /\ [][NextQuery]_vars

\* ---- getMeta / getHostnames ------------------------------------------------
\* JavaScript's null, written as a value different from every hostname a host uses
Null == "null"

\* a posted log entry with a hostname and, when given, a meta payload
MetaEntry(h, m) == [LogDoc(h, 1, "s1", "info", 1, {"a"}) EXCEPT !.meta = m]

PostedKinds == {MetaEntry("h2", Some("m1")), MetaEntry("h10", Some("m2")),
                MetaEntry("H3", None), MetaEntry("", Some("m1")),
                MetaEntry(Null, Some("m2"))}
\* the batches a flush hands to insertMany
PostedBatches == UNION {[1..n -> PostedKinds] : n \in 0..MaxDocs}

\* line 225: insertMany(logsToPost) stores every entry as given under the next _id
InsertMany(stored, logsToPost) ==
  stored \o [i \in 1..Len(logsToPost) |->
               Stored(logsToPost[i], Len(stored) + i, Len(stored) + i)]

\* how an async call settles
Resolve(v) == [settle |-> "resolved", value |-> v]
Throw(msg) == [settle |-> "rejected", value |-> msg]

\* faulty variant: the projection of the list calls, { meta: 0 }, is used
FindOneMeta_Excluded(objectId) ==
  IF \E i \in 1..Len(logs) : logs[i]._id = objectId
    THEN Some([_id |-> objectId, meta |-> None])
    ELSE None

\* line 472: findOne({ _id: objectId }, { projection: { meta: 1 } }) on the
\* documents docs; null when no document has that _id
FindOneMetaIn(docs, objectId) ==
  IF \E i \in 1..Len(docs) : docs[i]._id = objectId
    THEN Some([_id |-> objectId,
               meta |-> (CHOOSE d \in Range(docs) : d._id = objectId).meta])
    ELSE None

\* the same on the stored documents
FindOneMeta(objectId) == FindOneMetaIn(logs, objectId)

\* faulty variant: without the check of line 474 a missing entry gives an
\* item without id and meta
MetaItem_NoCheck(result) ==
  IF result = None THEN Resolve([item |-> None])
  ELSE Resolve([item |-> [id |-> result[1]._id, meta |-> result[1].meta]])

\* lines 474-478
MetaItem(result) ==
  IF result = None THEN Throw("Log entry not found.")
  ELSE Resolve([item |-> [id |-> result[1]._id, meta |-> result[1].meta]])

\* the UTF-16 code units of the hostnames of the model
CodeUnits(s) ==
  CASE s = "h2" -> <<104, 50>>
    [] s = "h10" -> <<104, 49, 48>>
    [] s = "H3" -> <<72, 51>>
    [] s = "" -> <<>>
    [] s = Null -> <<110, 117, 108, 108>>

\* the order of Array.prototype.sort(): by code units, a prefix first
RECURSIVE Before(_, _)
Before(a, b) ==
  IF a = <<>> THEN b # <<>>
  ELSE IF b = <<>> THEN FALSE
  ELSE IF a[1] # b[1] THEN a[1] < b[1]
  ELSE Before(Tail(a), Tail(b))

RECURSIVE Insert(_, _)
Insert(x, sorted) ==
  IF sorted = <<>> THEN <<x>>
  ELSE IF Before(CodeUnits(sorted[1]), CodeUnits(x)) THEN <<sorted[1]>> \o Insert(x, Tail(sorted))
  ELSE <<x>> \o sorted

\* faulty variant: the hostnames are returned in the order the engine gave them
SortStrings_None(arr) == arr

\* line 248: .sort()
RECURSIVE SortStrings(_)
SortStrings(arr) == IF arr = <<>> THEN <<>> ELSE Insert(arr[1], SortStrings(Tail(arr)))

\* line 248: .filter(Boolean)
FilterBoolean(arr) == SelectSeq(arr, LAMBDA h : h # Null /\ h # "")

\* lines 242-246: distinct('hostname', { hostname: { $nin: [null, ''] } }): the
\* different hostnames of the documents that pass the query, in any order
DistinctIn(docs) ==
  LET values == {d.hostname : d \in {x \in Range(docs) : x.hostname \notin {Null, ""}}}
  IN {arr \in [1..Cardinality(values) -> values] : Range(arr) = values}

Distinct == DistinctIn(logs)

\* state after init has resolved and a flush has stored a posted batch
InitLookup ==
  /\ client = "connected"
  /\ isConnectionInProgress = FALSE
  /\ db = "handle"
  /\ pendingLogs = <<>>
  /\ batchSize = DefaultBatchSize
  /\ timerScheduled = TRUE
  /\ initPc = "done"
  /\ initError = "none"
  /\ postPc = "idle"
  /\ postRet = "{}"
  /\ tasks = [f \in FlushIds |-> IdleTask]
  /\ \E logsToPost \in PostedBatches :
       /\ settled = Settled("timer", "resolved", "{}", IF logsToPost = <<>> THEN 0 ELSE 1)
       /\ logs = InsertMany(<<>>, logsToPost)
       /\ insertCalls = IF logsToPost = <<>> THEN <<>> ELSE <<logsToPost>>
       /\ posted = Len(logsToPost)
  /\ trace = InitOrder
  /\ failed = {}
  /\ EnsureIdle
  /\ ReadIdle

\* the list calls made before a getMeta: no selector, with and without a limit
ListFilters ==
  {Filter(None, None, None, None, None, None, None, None, None, None, None, lim) :
     lim \in {None, Some(2)}}

ListGetLogs ==
  /\ readOp = "none"
  /\ \E f \in ListFilters : Read("getLogs", <<>>, f)

ListSearchLogs ==
  /\ readOp = "none"
  /\ \E f \in ListFilters : Read("searchLogs", <<"a">>, f)

\* the ids a caller may pass: those of stored entries and one of no entry
MetaIds == {ToString(n) : n \in 1..(MaxDocs + 1)}

\* lines 470-479: one call of getMeta
GetMetaCall(id) ==
  /\ read' = [readOp |-> "getMeta",
              given |-> id,
              filters |-> "none",
              searchTerms |-> <<>>,
              query |-> [_id |-> ObjectId(id)],
              returned |-> <<MetaItem(FindOneMeta(ObjectId(id)))>>]
  /\ UNCHANGED <<bufferVars, logs, ensureVars>>

\* getMeta is called with the id of an item a list call returned
GetMetaListed ==
  /\ readOp \in {"getLogs", "searchLogs"}
  /\ \E i \in 1..Len(returned) : GetMetaCall(returned[i].id)

\* getMeta is called with any id
GetMeta ==
  /\ readOp = "none"
  /\ \E id \in MetaIds : GetMetaCall(id)

\* lines 240-253: one call of getHostnames
GetHostnames ==
  /\ readOp = "none"
  /\ \E hostnames \in Distinct :
       read' = [readOp |-> "getHostnames",
                given |-> "none",
                filters |-> "none",
                searchTerms |-> <<>>,
                query |-> [hostname |-> [nin |-> <<Null, "">>]],
                returned |-> <<Resolve([items |-> SortStrings(FilterBoolean(hostnames))])>>]
  /\ UNCHANGED <<bufferVars, logs, ensureVars>>

NextLookup == ListGetLogs \/ ListSearchLogs \/ GetMetaListed \/ GetMeta \/ GetHostnames \/ ReadReturn

SpecLookup == InitLookup /\ [][NextLookup]_vars

\* ---- the operations on the db handle, from the construction on --------------
\* The host may call any operation as soon as the object exists.  The entries
\* of Spec are numbers; entry e stands for the log entry object EntryDoc(e).
EntryHost(e) == <<"h2", "h10", "H3">>[((e - 1) % 3) + 1]
EntryDoc(e) == LogDoc(EntryHost(e), 1, "s1", "info", e, {"a"})

\* the documents of errsole_logs when the entries `stored` have been inserted
StoredDocs(stored) == InsertMany(<<>>, [i \in 1..Len(stored) |-> EntryDoc(stored[i])])

\* a call made without filter fields
NoFilter == Filter(None, None, None, None, None, None, None, None, None, None, None, None)

\* this.db.collection(...) and this.db.client on an undefined this.db throw
\* a TypeError
DbTypeError == db = "undefined"
\* line 250-252: getHostnames catches the error and returns it, so its promise
\* resolves with the TypeError; the other operations have no catch around the use
TypeErrorOf(op) ==
  IF op = "getHostnames" THEN Resolve([err |-> "TypeError"]) ELSE Throw("TypeError")
TypeErrorCall(op, arg) ==
  [readOp |-> op, given |-> arg, filters |-> "none", searchTerms |-> <<>>,
   query |-> "none", returned |-> <<TypeErrorOf(op)>>]

\* faulty variant: the list calls also return the entries still in the buffer
UseList_Buffered(op, terms) ==
  /\ readOp = "none"
  /\ ~Busy
  /\ IF DbTypeError
       THEN read' = TypeErrorCall(op, NoFilter)
       ELSE LET q == BuildQuery(op, terms, NoFilter) IN
            \E documents \in FindIn(StoredDocs(logs \o pendingLogs), q) :
              read' = [readOp |-> op,
                       given |-> NoFilter,
                       filters |-> [NoFilter EXCEPT !.limit = Some(EffectiveLimit(NoFilter))],
                       searchTerms |-> terms,
                       query |-> q,
                       returned |-> Map(ApplyReverse(q, documents), Format)]
  /\ UNCHANGED <<bufferVars, logs, ensureVars>>

\* lines 264-355, 367-459: getLogs / searchLogs at any moment of the object's life
UseList(op, terms) ==
  /\ readOp = "none"
  /\ ~Busy
  /\ IF DbTypeError
       THEN read' = TypeErrorCall(op, NoFilter)
       ELSE LET q == BuildQuery(op, terms, NoFilter) IN
            \E documents \in FindIn(StoredDocs(logs), q) :
              read' = [readOp |-> op,
                       given |-> NoFilter,
                       filters |-> [NoFilter EXCEPT !.limit = Some(EffectiveLimit(NoFilter))],
                       searchTerms |-> terms,
                       query |-> q,
                       returned |-> Map(ApplyReverse(q, documents), Format)]
  /\ UNCHANGED <<bufferVars, logs, ensureVars>>

UseGetLogs == UseList("getLogs", <<>>)
UseSearchLogs == UseList("searchLogs", <<"a">>)

\* lines 470-479: getMeta with the id of the entry stored last or with the
\* id after it
UseGetMeta ==
  /\ readOp = "none"
  /\ ~Busy
  /\ \E n \in {Len(logs), Len(logs) + 1} :
       /\ n >= 1
       /\ read' = IF DbTypeError
                    THEN TypeErrorCall("getMeta", ToString(n))
                    ELSE [readOp |-> "getMeta",
                          given |-> ToString(n),
                          filters |-> "none",
                          searchTerms |-> <<>>,
                          query |-> [_id |-> ObjectId(ToString(n))],
                          returned |-> <<MetaItem(FindOneMetaIn(StoredDocs(logs),
                                                                ObjectId(ToString(n))))>>]
  /\ UNCHANGED <<bufferVars, logs, ensureVars>>

\* lines 240-253: getHostnames
UseGetHostnames ==
  /\ readOp = "none"
  /\ ~Busy
  /\ IF DbTypeError
       THEN read' = TypeErrorCall("getHostnames", "none")
       ELSE \E hostnames \in DistinctIn(StoredDocs(logs)) :
              read' = [readOp |-> "getHostnames",
                       given |-> "none",
                       filters |-> "none",
                       searchTerms |-> <<>>,
                       query |-> [hostname |-> [nin |-> <<Null, "">>]],
                       returned |-> <<Resolve([items |-> SortStrings(FilterBoolean(hostnames))])>>]
  /\ UNCHANGED <<bufferVars, logs, ensureVars>>

\* lines 141, 162, 535: getConfig, setConfig and insertNotificationItem, up to
\* their first use of this.db; what they do on a handle is followed in
\* SpecTTL and SpecNotify
UseDb ==
  /\ readOp = "none"
  /\ ~Busy
  /\ \E op \in {"getConfig", "setConfig", "insertNotificationItem"} :
       read' = IF DbTypeError
                 THEN TypeErrorCall(op, "none")
                 ELSE [TypeErrorCall(op, "none") EXCEPT !.returned = <<>>]
  /\ UNCHANGED <<bufferVars, logs, ensureVars>>

\* `read` only records what the last call returned: the caller takes the
\* result (ReadReturn) before the program is followed further
NextUse ==
  \/ (readOp = "none" /\ Next)
  \/ UseGetLogs
  \/ UseSearchLogs
  \/ UseGetMeta
  \/ UseGetHostnames
  \/ UseDb
  \/ ReadReturn

SpecUse == Init /\ [][NextUse]_vars

\* ---- ensureLogsTTL / updateLogsCollectionTTL / updateNotificationsCollectionTTL
MaxTtl == 2      \* TTL values of 0..MaxTtl seconds are drawn
MaxInits == 2    \* runs of init() on the same database

\* a number of milliseconds, written as its thousands and its units
\* (2592000000 is beyond the integers the checker computes with)
Ms(k, r) == [thousands |-> k, units |-> r]
\* line 489
DEFAULT_TTL == Ms(2592000, 0)
\* a JavaScript string of decimal digits (n.toString()) and a number
Str(n) == [type |-> "string", val |-> n]
Num(n) == [type |-> "number", val |-> n]
\* parseInt(v) of a number or of its decimal string
ParseInt(v) == v.val

\* lines 513, 606: parseInt(ttl) / 1000, of a whole number of seconds
TtlInSeconds(v) == ParseInt(v).thousands

\* the TTL values a host sets or passes
TtlValues == {Ms(s, 0) : s \in 0..MaxTtl}

\* the key of the indexes of the model, by the name the driver gives them
IndexKey(name) ==
  CASE name = "source_1_level_1__id_1" -> <<"source", "level", "_id">>
    [] name = "source_1_level_1_timestamp_1" -> <<"source", "level", "timestamp">>
    [] name = "hostname_1_pid_1__id_1" -> <<"hostname", "pid", "_id">>
    [] name = "message_text" -> <<"message">>
    [] name = "errsole_id_1" -> <<"errsole_id">>
    [] name = "email_1" -> <<"email">>
    [] name = "key_1" -> <<"key">>
    [] name = "hostname_1_hashed_message_1_created_at_1" ->
         <<"hostname", "hashed_message", "created_at">>
    [] name = "created_at_1" -> <<"created_at">>
    [] name = "timestamp_1" -> <<"timestamp">>

\* an index as indexes() lists it: name, key and, for an expiring index,
\* expireAfterSeconds
DbIndex(st) ==
  [coll |-> st.coll, name |-> st.name, key |-> IndexKey(st.name),
   unique |-> st.opts = "unique", expireAfterSeconds |-> None]
\* lines 103-127: the indexes a completed ensureCollections leaves
EnsuredIndexes == {DbIndex(RequiredIndexCalls[i]) : i \in 1..Len(RequiredIndexCalls)}

\* lines 515, 520 and 608, 613: the field the expiring index of a collection is on
TtlField(c) == IF c = "errsole_logs" THEN "timestamp" ELSE "created_at"
DefaultName(field) == IF field = "timestamp" THEN "timestamp_1" ELSE "created_at_1"
\* lines 520, 613: the index of createIndex({ field: 1 }, { expireAfterSeconds })
TtlIndexDoc(c, seconds) ==
  [coll |-> c, name |-> DefaultName(TtlField(c)), key |-> <<TtlField(c)>>,
   unique |-> FALSE, expireAfterSeconds |-> Some(seconds)]

\* the engine refuses createIndex when the collection has an index of that
\* name or of that key which is not the very same index
CreateConflict(ixs, new) ==
  \E ix \in ixs : ix.coll = new.coll /\ (ix.name = new.name \/ ix.key = new.key) /\ ix # new

\* lines 515, 608: indexes.find(index => index.expireAfterSeconds &&
\* Object.keys(index.key).includes(field)): the indexes that pass the test
TtlCandidates(ixs, c) ==
  {ix \in ixs : ix.coll = c /\ TruthyNum(ix.expireAfterSeconds) /\ TtlField(c) \in Range(ix.key)}

\* faulty variant: an index of another expiry is taken for the wanted one
Stale_MissingOnly(found, ttlInSeconds) == found = None

\* lines 516, 609: !ttlIndex || ttlIndex.expireAfterSeconds !== ttlInSeconds
Stale(found, ttlInSeconds) ==
  found = None \/ found[1].expireAfterSeconds[1] # ttlInSeconds

\* -- the fields of `ensure` while the TTL calls are followed
\* the stored value of the configuration key logsTTL, if any
config == ensure.config
\* where the call is: the called function, the statement, the collection
ttlPc == ensure.ttlPc
\* ensureLogsTTL: the local result (its item's value, if any)
result == ensure.result
\* the argument of the running update call
ttlArg == ensure.ttlArg
\* the local ttlIndex
ttlIndex == ensure.ttlIndex
\* history: the storage writes of the current call, in order
ttlCalls == ensure.ttlCalls
\* history: the update functions ensureLogsTTL called, with their argument
ttlPassed == ensure.ttlPassed
\* history: the collections whose update call has returned
updated == ensure.updated
\* history: the indexes when the current call was made
ttlStart == ensure.ttlStart
\* history: the configuration value when ensureLogsTTL was called
ttlHad == ensure.ttlHad
\* history: storage calls of the current call that failed for a reason of
\* the environment
faults == ensure.faults
\* the error the current call threw, and the error the catch block logged
thrown == ensure.thrown
caught == ensure.caught
\* history: the previous call, when it was a call of updateLogsCollectionTTL
prev == ensure.prev
\* number of the run of init()
inits == ensure.inits

TtlAt(fn, at, c) == [fn |-> fn, at |-> at, coll |-> c]
UpdateName(c) ==
  IF c = "errsole_logs" THEN "updateLogsCollectionTTL" ELSE "updateNotificationsCollectionTTL"

\* a call record at the call of ensureLogsTTL (line 92) on the indexes ixs
TtlCallRecord(ixs, cfg, n) ==
  [indexes |-> ixs, config |-> cfg,
   ttlPc |-> TtlAt("ensureLogsTTL", "getConfig", ""),
   result |-> None, ttlArg |-> None, ttlIndex |-> None,
   ttlCalls |-> <<>>, ttlPassed |-> <<>>, updated |-> <<>>,
   ttlStart |-> ixs, ttlHad |-> None, faults |-> 0,
   thrown |-> None, caught |-> None, prev |-> None, inits |-> n]

\* state after line 91 of init() on a fresh database: ensureCollections has
\* completed, the flag is cleared, 'ready' is emitted, the interval is set
InitTTL ==
  /\ client = "connected"
  /\ isConnectionInProgress = FALSE
  /\ db = "handle"
  /\ pendingLogs = <<>>
  /\ batchSize = DefaultBatchSize
  /\ timerScheduled = TRUE
  /\ initPc = "l92"
  /\ initError = "none"
  /\ postPc = "idle"
  /\ postRet = "none"
  /\ tasks = [f \in FlushIds |-> IdleTask]
  /\ settled = Settled("none", "none", "none", 0)
  /\ logs = <<>>
  /\ insertCalls = <<>>
  /\ trace = SubSeq(InitOrder, 1, 6)
  /\ posted = 0
  /\ failed = {}
  /\ ensure = TtlCallRecord(EnsuredIndexes, None, 1)
  /\ ReadIdle

\* lines 495-496, 512-514, 605-607: an update function is called with a
\* value and awaits indexes()
EnterUpdate(rec, c, value) ==
  [rec EXCEPT !.ttlPc = TtlAt(rec.ttlPc.fn, "list", c),
              !.ttlArg = Some(value),
              !.ttlIndex = None,
              !.ttlPassed = Append(rec.ttlPassed, [fn |-> UpdateName(c), arg |-> value])]

\* lines 522, 615: an update function returns {}; ensureLogsTTL goes on with
\* line 496 or line 500
FinishUpdate(rec, c) ==
  LET done == [rec EXCEPT !.updated = Append(rec.updated, c)] IN
    IF rec.ttlPc.fn = "ensureLogsTTL" /\ c = "errsole_logs"
      THEN EnterUpdate(done, "errsole_notifications", rec.result[1])
      ELSE [done EXCEPT !.ttlPc = TtlAt(rec.ttlPc.fn, "return", "")]

\* faulty variant: the catch block throws the error again
EnsureLogsTTLCatch_Rethrow(err) == [at |-> "rejected", caught |-> Some(err)]

\* lines 497-500: the error is logged, ensureLogsTTL returns {}
EnsureLogsTTLCatch(err) == [at |-> "return", caught |-> Some(err)]

\* a storage call of the current call throws
Reject(rec, err) ==
  IF rec.ttlPc.fn = "ensureLogsTTL"
    THEN [rec EXCEPT !.ttlPc = TtlAt(rec.ttlPc.fn, EnsureLogsTTLCatch(err).at, ""),
                     !.thrown = Some(err),
                     !.caught = EnsureLogsTTLCatch(err).caught]
    ELSE [rec EXCEPT !.ttlPc = TtlAt(rec.ttlPc.fn, "rejected", ""),
                     !.thrown = Some(err)]

\* the call is made by the function that is allowed to run
TtlRunning ==
  \/ ttlPc.fn = "ensureLogsTTL" /\ initPc = "ensureLogsTTL"
  \/ ttlPc.fn = "updateLogsCollectionTTL" /\ initPc = "done"

\* faulty variant: the default is written whether or not a value is stored
NeedsDefault_Always(item) == TRUE

\* line 492: !result.item
NeedsDefault(item) == item = None

\* line 491 resolves: getConfig('logsTTL') gives the stored item or none
TtlGetConfig ==
  /\ TtlRunning
  /\ ttlPc.at = "getConfig"
  /\ LET got == [ensure EXCEPT !.ttlHad = config, !.result = config] IN
       ensure' = IF NeedsDefault(got.result)
                   THEN [got EXCEPT !.ttlPc = TtlAt(ttlPc.fn, "setConfig", "")]
                   ELSE EnterUpdate(got, "errsole_logs", got.result[1])
  /\ UNCHANGED <<bufferVars, logs, readVars>>

\* line 493 resolves: setConfig('logsTTL', DEFAULT_TTL.toString()) has
\* upserted the value and read the item back (lines 160-175)
TtlSetConfig ==
  /\ TtlRunning
  /\ ttlPc.at = "setConfig"
  /\ LET value == Str(DEFAULT_TTL)
         set == [ensure EXCEPT !.config = Some(value),
                               !.result = Some(value),
                               !.ttlCalls = Append(ttlCalls,
                                  [op |-> "setConfig", coll |-> "errsole_config",
                                   name |-> "logsTTL", value |-> Some(value)])]
     IN ensure' = EnterUpdate(set, "errsole_logs", value)
  /\ UNCHANGED <<bufferVars, logs, readVars>>

\* lines 514-517, 607-610: indexes() resolves, the expiring index is looked
\* for and compared with the target
TtlList ==
  /\ TtlRunning
  /\ ttlPc.at = "list"
  /\ LET c == ttlPc.coll
         candidates == TtlCandidates(indexes, c)
     IN \E found \in (IF candidates = {} THEN {None} ELSE {Some(ix) : ix \in candidates}) :
          ensure' =
            IF Stale(found, TtlInSeconds(ttlArg[1]))
              THEN [ensure EXCEPT
                      !.ttlPc = TtlAt(ttlPc.fn, IF found # None THEN "drop" ELSE "create", c),
                      !.ttlIndex = found]
              ELSE FinishUpdate([ensure EXCEPT !.ttlIndex = found], c)
  /\ UNCHANGED <<bufferVars, logs, readVars>>

\* lines 518, 611: dropIndex(ttlIndex.name) resolves
TtlDrop ==
  /\ TtlRunning
  /\ ttlPc.at = "drop"
  /\ ensure' = [ensure EXCEPT
       !.indexes = {ix \in indexes : ~(ix.coll = ttlPc.coll /\ ix.name = ttlIndex[1].name)},
       !.ttlCalls = Append(ttlCalls, [op |-> "dropIndex", coll |-> ttlPc.coll,
                                      name |-> ttlIndex[1].name, value |-> None]),
       !.ttlPc = TtlAt(ttlPc.fn, "create", ttlPc.coll)]
  /\ UNCHANGED <<bufferVars, logs, readVars>>

\* lines 520, 613: createIndex({ field: 1 }, { expireAfterSeconds }) resolves,
\* or throws because the engine refuses the index
TtlCreate ==
  /\ TtlRunning
  /\ ttlPc.at = "create"
  /\ LET new == TtlIndexDoc(ttlPc.coll, TtlInSeconds(ttlArg[1]))
         called == [ensure EXCEPT !.ttlCalls = Append(ttlCalls,
                      [op |-> "createIndex", coll |-> ttlPc.coll, name |-> new.name,
                       value |-> new.expireAfterSeconds])]
     IN ensure' =
          IF CreateConflict(indexes, new)
            THEN Reject(called, "IndexOptionsConflict")
            ELSE FinishUpdate([called EXCEPT !.indexes = indexes \cup {new}], ttlPc.coll)
  /\ UNCHANGED <<bufferVars, logs, readVars>>

\* the storage call the current call awaits fails (the connection is lost,
\* the server steps down); a failed setConfig may have written the value
TtlFail ==
  /\ TtlRunning
  /\ ttlPc.at \in {"getConfig", "setConfig", "list", "drop", "create"}
  /\ \E written \in BOOLEAN :
       /\ written => ttlPc.at = "setConfig"
       /\ ensure' = Reject([ensure EXCEPT
                              !.faults = faults + 1,
                              !.config = IF written THEN Some(Str(DEFAULT_TTL)) ELSE config],
                           "storage")
  /\ UNCHANGED <<bufferVars, logs, readVars>>

\* line 92: the promise of ensureLogsTTL settles and init() with it
TtlSettle ==
  /\ ttlPc.fn = "ensureLogsTTL"
  /\ ttlPc.at \in {"return", "rejected"}
  /\ IF ttlPc.at = "return"
       THEN InitEnsureLogsTTLResolve
       ELSE /\ initPc = "ensureLogsTTL"
            /\ initPc' = "rejected"
            /\ initError' = "ensureLogsTTL"
            /\ UNCHANGED <<client, isConnectionInProgress, db, pendingLogs, batchSize,
                           timerScheduled, postPc, postRet, tasks, settled, logs,
                           insertCalls, trace, posted, failed>>
            /\ UNCHANGED otherVars

\* no call is in progress and init() has resolved
TtlQuiet == initPc = "done" /\ ttlPc.at \in {"return", "rejected"}

\* the host calls updateLogsCollectionTTL(X)
HostUpdateLogsTTL ==
  /\ TtlQuiet
  /\ \E X \in TtlValues :
       ensure' = EnterUpdate(
         [TtlCallRecord(indexes, config, inits) EXCEPT
            !.ttlPc = TtlAt("updateLogsCollectionTTL", "call", ""),
            !.prev = IF ttlPc.fn = "updateLogsCollectionTTL"
                       THEN Some([arg |-> ttlArg[1], at |-> ttlPc.at]) ELSE None],
         "errsole_logs", Num(X))
  /\ UNCHANGED <<bufferVars, logs, readVars>>

\* the host sets the configuration value: setConfig('logsTTL', value)
HostSetConfig ==
  /\ TtlQuiet
  /\ \E X \in TtlValues :
       /\ config # Some(Str(X))
       /\ ensure' = [TtlCallRecord(indexes, Some(Str(X)), inits) EXCEPT
                       !.ttlPc = TtlAt("setConfig", "return", "")]
  /\ UNCHANGED <<bufferVars, logs, readVars>>

\* the process is started again on the same database: the constructor and
\* init() run up to line 91; ensureCollections finds its collections and
\* issues its createIndex calls, which the engine accepts
Restart ==
  /\ TtlQuiet
  /\ inits < MaxInits
  /\ \A new \in EnsuredIndexes : ~CreateConflict(indexes, new)
  /\ ensure' = TtlCallRecord(indexes \cup EnsuredIndexes, config, inits + 1)
  /\ initPc' = "l92"
  /\ trace' = SubSeq(InitOrder, 1, 6)
  /\ UNCHANGED <<client, isConnectionInProgress, db, pendingLogs, batchSize, timerScheduled,
                 initError, postPc, postRet, tasks, settled, logs, insertCalls, posted,
                 failed, readVars>>

NextTTL ==
  \/ InitCallEnsureLogsTTL
  \/ TtlGetConfig
  \/ TtlSetConfig
  \/ TtlList
  \/ TtlDrop
  \/ TtlCreate
  \/ TtlFail
  \/ TtlSettle
  \/ HostUpdateLogsTTL
  \/ HostSetConfig
  \/ Restart

SpecTTL == InitTTL /\ [][NextTTL]_vars

\* ---- insertNotificationItem -------------------------------------------------
MaxClock == 2          \* the clock runs over the milliseconds 0..MaxClock
DayLen == 2            \* milliseconds of a UTC day, on the scale of the model
MaxNotifications == 2  \* insertNotificationItem calls in one behaviour

\* the calls of insertNotificationItem that may be in progress together
Callers == {"c1", "c2"}

\* the argument of a call: errsole_id, hostname, hashed_message (lines 531-533)
Notification(h, m) == [errsole_id |-> 101, hostname |-> h, hashed_message |-> m]
NotificationArgs ==
  {Notification("h1", "a"), Notification("h1", "b"), Notification("h2", "a")}

\* lines 555-561: the inserted document; the driver gives it a new _id
NotificationDoc(id, n, timestamp) ==
  [_id |-> id, errsole_id |-> n.errsole_id, hostname |-> n.hostname,
   hashed_message |-> n.hashed_message, created_at |-> timestamp,
   updated_at |-> timestamp]

\* lines 549, 570-572: { hostname, hashed_message: hashedMessage }
Fingerprint(docs, n) ==
  {d \in docs : d.hostname = n.hostname /\ d.hashed_message = n.hashed_message}

\* line 550: sort { created_at: -1 }, the first document; among documents of
\* the same created_at the engine returns any
Latest(docs) == {d \in docs : \A e \in docs : e.created_at <= d.created_at}

\* lines 565-568: setUTCHours(0, 0, 0, 0) and setUTCHours(23, 59, 59, 999)
StartOfDayUTC(t) == t - (t % DayLen)
EndOfDayUTC(t) == StartOfDayUTC(t) + DayLen - 1

\* lines 569-576: created_at: { $gte: startOfDayUTC, $lte: endOfDayUTC }
CountDocuments(docs, n, startOfDayUTC, endOfDayUTC) ==
  Cardinality({d \in Fingerprint(docs, n) :
                 d.created_at >= startOfDayUTC /\ d.created_at <= endOfDayUTC})

\* lines 578-582: const { _id, ...rest }; { id: _id.toString(), ...rest };
\* undefined when there was no document
FormatNotification(found) ==
  IF found = None THEN None
  ELSE Some([id |-> ToString(found[1]._id), errsole_id |-> found[1].errsole_id,
             hostname |-> found[1].hostname,
             hashed_message |-> found[1].hashed_message,
             created_at |-> found[1].created_at,
             updated_at |-> found[1].updated_at])

\* -- the fields of `ensure` while insertNotificationItem is followed
\* the committed documents of errsole_notifications
notifications == ensure.notifications
\* the clock that new Date() reads, in milliseconds
clock == ensure.clock
\* number of insertNotificationItem calls made so far
started == ensure.started
\* number of _id values the driver has given out
lastId == ensure.lastId
\* the calls, by caller (fields of NoCall)
calls == ensure.calls

\* a caller that has made no call: where the call is (at), its argument, the
\* session (line 535), the snapshot the transaction reads from, the locals
\* previousNotificationItem, timestamp, startOfDayUTC, todayNotificationCount,
\* the document inserted in the transaction, how the promise settled, and as
\* history the committed documents at the moment of insertOne
NoCall ==
  [at |-> "idle", notification |-> None, session |-> "none", snapshot |-> {},
   previousNotificationItem |-> None, timestamp |-> None, inserted |-> None,
   startOfDayUTC |-> None, todayNotificationCount |-> None, settle |-> None,
   atInsert |-> {}]

\* what the transaction of a call reads: its snapshot and its own write
Visible(call) ==
  call.snapshot \cup (IF call.inserted = None THEN {} ELSE {call.inserted[1]})

InitNotify ==
  /\ client = "connected"
  /\ isConnectionInProgress = FALSE
  /\ db = "handle"
  /\ pendingLogs = <<>>
  /\ batchSize = DefaultBatchSize
  /\ timerScheduled = TRUE
  /\ initPc = "done"
  /\ initError = "none"
  /\ postPc = "idle"
  /\ postRet = "none"
  /\ tasks = [f \in FlushIds |-> IdleTask]
  /\ settled = Settled("none", "none", "none", 0)
  /\ logs = <<>>
  /\ insertCalls = <<>>
  /\ trace = InitOrder
  /\ posted = 0
  /\ failed = {}
  /\ ensure = [notifications |-> {}, clock |-> 0, started |-> 0, lastId |-> 0,
               calls |-> [c \in Callers |-> NoCall]]
  /\ ReadIdle

NotifyUnchanged == UNCHANGED <<bufferVars, logs, readVars>>

\* lines 530-546: the call starts a session and enters withTransaction
NotifyCall(c) ==
  /\ calls[c].at \in {"idle", "settled"}
  /\ started < MaxNotifications
  /\ \E n \in NotificationArgs :
       ensure' = [ensure EXCEPT
                    !.started = started + 1,
                    !.calls[c] = [NoCall EXCEPT !.at = "findOne",
                                                !.notification = Some(n),
                                                !.session = "open"]]
  /\ NotifyUnchanged

\* lines 548-551: findOne, the first operation of the transaction, fixes the
\* snapshot it reads from
NotifyFindOne(c) ==
  /\ calls[c].at = "findOne"
  /\ LET matching == Fingerprint(notifications, calls[c].notification[1])
     IN \E found \in (IF matching = {} THEN {None}
                      ELSE {Some(d) : d \in Latest(matching)}) :
          ensure' = [ensure EXCEPT
                       !.calls[c].at = "insertOne",
                       !.calls[c].snapshot = notifications,
                       !.calls[c].previousNotificationItem = found]
  /\ NotifyUnchanged

\* lines 553-563: timestamp = new Date(); insertOne in the transaction
NotifyInsertOne(c) ==
  /\ calls[c].at = "insertOne"
  /\ ensure' = [ensure EXCEPT
                  !.lastId = lastId + 1,
                  !.calls[c].at = "startOfDay",
                  !.calls[c].timestamp = Some(clock),
                  !.calls[c].inserted =
                     Some(NotificationDoc(lastId + 1, calls[c].notification[1], clock)),
                  !.calls[c].atInsert = notifications]
  /\ NotifyUnchanged

\* lines 565-566: startOfDayUTC from a second reading of the clock
NotifyStartOfDay(c) ==
  /\ calls[c].at = "startOfDay"
  /\ ensure' = [ensure EXCEPT
                  !.calls[c].at = "countDocuments",
                  !.calls[c].startOfDayUTC = Some(StartOfDayUTC(clock))]
  /\ NotifyUnchanged

\* lines 567-576: endOfDayUTC from a third reading of the clock; countDocuments
\* reads the snapshot and the transaction's own insert
NotifyCountDocuments(c) ==
  /\ calls[c].at = "countDocuments"
  /\ ensure' = [ensure EXCEPT
                  !.calls[c].at = "commit",
                  !.calls[c].todayNotificationCount =
                     Some(CountDocuments(Visible(calls[c]), calls[c].notification[1],
                                         calls[c].startOfDayUTC[1], EndOfDayUTC(clock)))]
  /\ NotifyUnchanged

\* lines 578-593: the result is built, the transaction commits, the session
\* is ended and the call resolves with the result
NotifyCommit(c) ==
  /\ calls[c].at = "commit"
  /\ ensure' = [ensure EXCEPT
                  !.notifications = notifications \cup {calls[c].inserted[1]},
                  !.calls[c].at = "settled",
                  !.calls[c].session = "ended",
                  !.calls[c].settle =
                     Some(Resolve([previousNotificationItem |->
                                     FormatNotification(calls[c].previousNotificationItem),
                                   todayNotificationCount |->
                                     calls[c].todayNotificationCount[1]]))]
  /\ NotifyUnchanged

\* faulty variant: the operations run outside a transaction, a document that
\* was inserted before the failure stays
NotifyFail_NoAbort(c) ==
  /\ calls[c].at \in {"findOne", "insertOne", "countDocuments", "commit"}
  /\ ensure' = [ensure EXCEPT
                  !.notifications = notifications \cup Range(calls[c].inserted),
                  !.calls[c].at = "settled",
                  !.calls[c].session = "ended",
                  !.calls[c].settle = Some(Throw(calls[c].at))]
  /\ NotifyUnchanged

\* a storage operation of the transaction, or its commit, rejects with an
\* error (named here by the operation): the transaction is aborted, the
\* session is ended (lines 591-593) and the call rejects with the error
NotifyFail(c) ==
  /\ calls[c].at \in {"findOne", "insertOne", "countDocuments", "commit"}
  /\ ensure' = [ensure EXCEPT
                  !.calls[c].at = "settled",
                  !.calls[c].session = "ended",
                  !.calls[c].settle = Some(Throw(calls[c].at))]
  /\ NotifyUnchanged

\* a millisecond passes
Tick ==
  /\ clock < MaxClock
  /\ ensure' = [ensure EXCEPT !.clock = clock + 1]
  /\ NotifyUnchanged

NotifyCallAny == \E c \in Callers : NotifyCall(c)
NotifyFindOneAny == \E c \in Callers : NotifyFindOne(c)
NotifyInsertOneAny == \E c \in Callers : NotifyInsertOne(c)
NotifyStartOfDayAny == \E c \in Callers : NotifyStartOfDay(c)
NotifyCountDocumentsAny == \E c \in Callers : NotifyCountDocuments(c)
NotifyCommitAny == \E c \in Callers : NotifyCommit(c)
NotifyFailAny == \E c \in Callers : NotifyFail(c)

NextNotify ==
  \/ NotifyCallAny
  \/ NotifyFindOneAny
  \/ NotifyInsertOneAny
  \/ NotifyStartOfDayAny
  \/ NotifyCountDocumentsAny
  \/ NotifyCommitAny
  \/ NotifyFailAny
  \/ Tick

SpecNotify == InitNotify /\ [][NextNotify]_vars

\* ---- properties ----------------------------------------------------------
Batched == Concat(insertCalls)

IsPrefix(s, t) == Len(s) <= Len(t) /\ s = SubSeq(t, 1, Len(s))

\* C1: every entry given to postLogs is, at any time, either once in the
\* pending buffer or in exactly one insertMany batch (never in two batches,
\* never gone from the buffer without a batch), and at most one flushLogs
\* call holds it.
C1_ClaimedExactlyOnce ==
  /\ Range(pendingLogs) \cup Range(Batched) \subseteq 1..posted
  /\ \A e \in 1..posted :
       /\ Count(e, pendingLogs) + Count(e, Batched) = 1
       /\ Cardinality({f \in FlushIds : e \in Range(tasks[f].batch)}) <= 1
       /\ Cardinality({i \in 1..Len(insertCalls) : e \in Range(insertCalls[i])}) <= 1

\* a timer-triggered and a size-triggered flush are in flight together, each
\* with its own entries
C1_Witness ==
  \E f, g \in FlushIds :
    /\ tasks[f].pc = "insert" /\ tasks[f].trigger = "timer"
    /\ tasks[g].pc = "insert" /\ tasks[g].trigger = "size"
    /\ Len(insertCalls) >= 2

\* C2: once init() has completed, every posted entry is eventually part of
\* an insertMany call, also when the buffer never reaches batchSize.
C2_EventuallyFlushed ==
  \A e \in 1..MaxEntries :
    (initPc = "done" /\ e <= posted) ~> (e \in Range(Batched))

\* below the batch size, a timer-triggered flush has inserted an entry
C2_Witness ==
  /\ initPc = "done"
  /\ batchSize = DefaultBatchSize
  /\ settled = Settled("timer", "resolved", "{}", 1)
  /\ logs # <<>>

\* C3: while isConnectionInProgress is true no entry leaves the pending
\* buffer and no insertMany is issued: the buffer holds every entry posted
\* so far and every flushLogs call is still polling.
C3_NoFlushWhileConnecting ==
  isConnectionInProgress =>
    /\ insertCalls = <<>>
    /\ logs = <<>>
    /\ pendingLogs = Entries(1, posted)
    /\ \A f \in FlushIds : tasks[f].pc \in {"idle", "poll"}
    /\ settled.calls = 0 /\ settled.settle = "none"

\* during initialization a flushLogs call polls while postLogs calls have
\* returned and their entries wait in the buffer
C3_Witness ==
  /\ isConnectionInProgress
  /\ \E f \in FlushIds : tasks[f].pc = "poll"
  /\ Len(pendingLogs) >= 2
  /\ postRet = "{}" /\ postPc = "idle"

C5_PostLogs ==
  [][/\ posted' # posted =>
          /\ pendingLogs' = pendingLogs \o Entries(posted + 1, posted')
          /\ UNCHANGED <<tasks, settled, insertCalls, logs>>
     /\ (postPc = "l202" /\ postPc' = "idle") =>
          /\ postRet' = "{}"
          /\ logs' = logs
          /\ (\E f \in FlushIds : tasks'[f] # tasks[f] /\ tasks'[f].trigger = "size")
               <=> (Len(pendingLogs) >= batchSize)
          /\ \A f \in FlushIds :
               tasks'[f] # tasks[f] => tasks'[f].pc \in {"poll", "insert"}
          /\ Len(pendingLogs) < batchSize => UNCHANGED <<pendingLogs, tasks, settled, insertCalls>>]_vars

\* postLogs has returned {} while the insertMany of the flush it triggered
\* is still in flight
C5_Witness ==
  /\ postRet = "{}" /\ postPc = "idle"
  /\ \E f \in FlushIds : tasks[f].trigger = "size" /\ tasks[f].pc = "insert"

\* a flushLogs call takes a slot, or returns at once and only sets `settled`
FlushStarted == \E f \in FlushIds : tasks[f].pc = "idle" /\ tasks'[f].pc # "idle"
FlushReturnedAtOnce == tasks' = tasks /\ settled' # settled

\* C6 as stated: a flushLogs call that finds the pending buffer empty makes
\* no storage call and has returned {} when the call returns.
C6_EmptyFlushImmediate ==
  [][pendingLogs = <<>> =>
       /\ ~FlushStarted
       /\ FlushReturnedAtOnce =>
            /\ settled'.settle = "resolved" /\ settled'.value = "{}" /\ settled'.calls = 0
            /\ UNCHANGED <<insertCalls, logs, pendingLogs>>]_vars

\* C6 amended: the same, for a call made when isConnectionInProgress is false.
C6_EmptyFlushWhenReady ==
  [][(pendingLogs = <<>> /\ ~isConnectionInProgress) =>
       /\ ~FlushStarted
       /\ FlushReturnedAtOnce =>
            /\ settled'.settle = "resolved" /\ settled'.value = "{}" /\ settled'.calls = 0
            /\ UNCHANGED <<insertCalls, logs, pendingLogs>>]_vars

\* a timer-triggered flush found the buffer empty and returned {} with no
\* storage call
C6_Witness ==
  /\ ~isConnectionInProgress
  /\ pendingLogs = <<>> /\ insertCalls = <<>>
  /\ settled = Settled("timer", "resolved", "{}", 0)

\* C7: the batches, concatenated in the order they were claimed and followed
\* by the pending buffer, are the posted entries in posting order; a batch
\* that is in flight does not change and insertMany calls are only added.
C7_Fifo ==
  /\ [](Batched \o pendingLogs = Entries(1, posted))
  /\ [][/\ \A f \in FlushIds :
             (tasks[f].pc = "insert" /\ tasks'[f].pc = "insert") =>
                tasks'[f].batch = tasks[f].batch
        /\ IsPrefix(insertCalls, insertCalls')]_vars

\* an entry posted while the first batch was in flight went to a second batch
C7_Witness ==
  /\ Len(insertCalls) >= 2
  /\ \E f \in FlushIds : tasks[f].pc = "insert" /\ tasks[f].batch = insertCalls[1]
  /\ \E g \in FlushIds : tasks[g].pc = "insert" /\ tasks[g].batch = insertCalls[2]

\* C8: the startup events of init() happen in the order connect,
\* ensureCollections, flag cleared, 'ready', timer, ensureLogsTTL; 'ready' is
\* not emitted while the flag is true and no timer-triggered flush exists
\* before 'ready'.
C8_InitOrder ==
  /\ IsPrefix(trace, InitOrder)
  /\ isConnectionInProgress <=> "flag" \notin Range(trace)
  /\ timerScheduled <=> "timer" \in Range(trace)
  /\ "ready" \in Range(trace) => ~isConnectionInProgress
  /\ \A f \in FlushIds : tasks[f].trigger = "timer" => "ready" \in Range(trace)
  /\ settled.trigger = "timer" => "ready" \in Range(trace)

\* a timer-triggered flush after a complete startup
C8_Witness ==
  /\ trace = InitOrder
  /\ \E f \in FlushIds : tasks[f].trigger = "timer" /\ tasks[f].pc = "insert"

\* C9: the flag is true after construction, is cleared only by init after
\* connect and ensureCollections succeeded, the db handle is set whenever it
\* is false, and it never becomes true again.
C9_FlagLifecycle ==
  /\ isConnectionInProgress = TRUE
  /\ [](~isConnectionInProgress =>
          /\ db = "handle" /\ client = "connected"
          /\ "connect" \in Range(trace) /\ "ensureCollections" \in Range(trace)
          /\ initPc \notin {"connect", "ensureCollections", "l89", "rejected"}
          /\ initError = "none")
  /\ [][~isConnectionInProgress => ~isConnectionInProgress']_vars
  /\ [][(isConnectionInProgress /\ ~isConnectionInProgress') => initPc = "l89"]_vars

\* init() has completed and the flag is false
C9_Witness == ~isConnectionInProgress /\ initPc = "done" /\ db = "handle"

\* C10: when the connect fails, init() rejects with that error and no later
\* startup step runs.
C10_ConnectFailureFatal ==
  client = "failed" =>
    /\ initPc = "rejected" /\ initError = "connect"
    /\ trace = <<>>
    /\ db = "undefined"
    /\ isConnectionInProgress
    /\ ~timerScheduled
    /\ insertCalls = <<>>

\* the connect failed; entries posted afterwards stay in the buffer
C10_Witness == client = "failed" /\ initPc = "rejected" /\ posted > 0

\* C11: a run of ensureCollections that completes has called createCollection
\* exactly for the required collections that were missing when it was
\* called, each once and never for an existing one, has called createIndex
\* for every required index, and leaves all four collections with their
\* indexes; a run after a completed one creates nothing and leaves the
\* collections and indexes as that one left them.
C11_EnsureConverges ==
  /\ \A i \in 1..Len(created) : created[i] \notin ecStart
  /\ \A i, j \in 1..Len(created) : created[i] = created[j] => i = j
  /\ ecPc.at = "done" =>
       /\ Range(created) = RequiredCollections \ ecStart
       /\ collections = ecStart \cup RequiredCollections
       /\ indexCalls = RequiredIndexCalls
       /\ \A c \in RequiredCollections : RequiredIndexes(c) \subseteq indexes
  /\ ecFirst # <<>> => ecFirst = <<[collections |-> collections, indexes |-> indexes]>>
  /\ ecPc.at = "done" => ecFirst # <<>>

\* a second run, called with all four collections present, has completed
C11_Witness ==
  /\ ecPc.at = "done" /\ ecRun = 2
  /\ ecFirst = <<[collections |-> collections, indexes |-> indexes]>>
  /\ ecStart = RequiredCollections
  /\ created = <<>>
  /\ indexCalls = RequiredIndexCalls
  /\ "errsole_users" \in collections

\* ---- properties of getLogs / searchLogs ------------------------------------
Resolved == readOp \in {"getLogs", "searchLogs"}
Docs == Range(logs)
Id(item) == ObjectId(item.id)
ReturnedIds == {Id(returned[i]) : i \in 1..Len(returned)}
AscendingIds == \A i \in 1..(Len(returned) - 1) : Id(returned[i]) < Id(returned[i + 1])
AscendingTimes ==
  \A i \in 1..(Len(returned) - 1) : returned[i].timestamp <= returned[i + 1].timestamp
\* the returned item is the stored document of that id without its meta field
Faithful == \A i \in 1..Len(returned) :
  /\ Id(returned[i]) \in 1..Len(logs)
  /\ returned[i] = Format(logs[Id(returned[i])])

\* the predicates a filter stands for, read from the filter itself
HostnameOk(d) ==
  IF given.hostnames # None /\ given.hostnames[1] # <<>>
    THEN d.hostname \in Range(given.hostnames[1])
    ELSE given.hostname # None => d.hostname = given.hostname[1]
PidOk(d) == given.pid # None => d.pid = given.pid[1]
SourcesOk(d) == given.sources # None => d.source \in Range(given.sources[1])
LevelsOk(d) == given.levels # None => d.level \in Range(given.levels[1])
LevelPairs == IF given.level_json = None THEN {} ELSE Range(given.level_json[1])
OrSetGiven == LevelPairs # {} \/ given.errsole_id # None
OrSetOk(d) ==
  \/ \E p \in LevelPairs : d.source = p.source /\ d.level = p.level
  \/ given.errsole_id # None /\ d.errsole_id = given.errsole_id[1].val
TextOk(d) == searchTerms # <<>> /\ \A i \in 1..Len(searchTerms) : searchTerms[i] \in d.message
SelectorsOk(d) ==
  /\ HostnameOk(d) /\ PidOk(d) /\ SourcesOk(d) /\ LevelsOk(d)
  /\ OrSetGiven => OrSetOk(d)
  /\ readOp = "searchLogs" => TextOk(d)
WindowOk(d) ==
  /\ given.lte_timestamp # None => d.timestamp <= given.lte_timestamp[1]
  /\ given.gte_timestamp # None => d.timestamp >= given.gte_timestamp[1]
NoCursor ==
  /\ given.lt_id = None /\ given.gt_id = None
  /\ given.lte_timestamp = None /\ given.gte_timestamp = None
\* the returned items are exactly Min(limit, number of candidates) candidates
TakenFrom(cand) ==
  /\ Faithful
  /\ ReturnedIds \subseteq {d._id : d \in cand}
  /\ Len(returned) = Min(filters.limit[1], Cardinality(cand))
Left(cand) == {d \in cand : d._id \notin ReturnedIds}

\* C12: with lt_id, getLogs returns only items of id < lt_id, in ascending
\* id order, and they are the `limit` greatest such ids among the entries the
\* other predicates select.
C12_LtId ==
  (readOp = "getLogs" /\ given.lt_id # None) =>
    LET cand == {d \in Docs : SelectorsOk(d) /\ d._id < ObjectId(given.lt_id[1])} IN
      /\ \A i \in 1..Len(returned) : Id(returned[i]) < ObjectId(given.lt_id[1])
      /\ AscendingIds
      /\ TakenFrom(cand)
      /\ \A d \in Left(cand) : \A i \in 1..Len(returned) : d._id < Id(returned[i])

\* three entries are stored, lt_id is the third id and the limit is 1: the
\* second entry alone is returned
C12_Witness ==
  /\ readOp = "getLogs" /\ given.lt_id = Some(ToString(3)) /\ given.gt_id = None
  /\ Len(logs) = 3
  /\ given.limit = Some(1)
  /\ ReturnedIds = {2}

\* C13: with gt_id and no lt_id, getLogs returns only items of id > gt_id,
\* fetched in ascending id order and not reversed, and they are the `limit`
\* smallest such ids among the entries the other predicates select.
C13_GtId ==
  (readOp = "getLogs" /\ given.gt_id # None /\ given.lt_id = None) =>
    LET cand == {d \in Docs : SelectorsOk(d) /\ d._id > ObjectId(given.gt_id[1])} IN
      /\ \A i \in 1..Len(returned) : Id(returned[i]) > ObjectId(given.gt_id[1])
      /\ AscendingIds
      /\ query.sortOrder = [key |-> "_id", dir |-> 1] /\ ~query.shouldReverse
      /\ TakenFrom(cand)
      /\ \A d \in Left(cand) : \A i \in 1..Len(returned) : d._id > Id(returned[i])

\* three entries are stored, gt_id is the first id and the limit is 1: the
\* second entry alone is returned
C13_Witness ==
  /\ readOp = "getLogs" /\ given.gt_id = Some(ToString(1)) /\ given.lt_id = None
  /\ Len(logs) = 3
  /\ given.limit = Some(1)
  /\ ReturnedIds = {2}

\* C14: with lte_timestamp = T2 and gte_timestamp = T1, T1 < T2, and no id
\* cursor, every returned item has T1 <= timestamp <= T2, the fetch is
\* ascending by timestamp without reversal, and the result is the `limit`
\* earliest entries of the window in ascending timestamp order.
C14_BothTimestamps ==
  (/\ readOp = "getLogs" /\ given.lt_id = None /\ given.gt_id = None
   /\ given.lte_timestamp # None /\ given.gte_timestamp # None
   /\ given.gte_timestamp[1] < given.lte_timestamp[1]) =>
    LET cand == {d \in Docs : SelectorsOk(d) /\ WindowOk(d)} IN
      /\ \A i \in 1..Len(returned) :
           /\ given.gte_timestamp[1] <= returned[i].timestamp
           /\ returned[i].timestamp <= given.lte_timestamp[1]
      /\ query.sortOrder = [key |-> "timestamp", dir |-> 1] /\ ~query.shouldReverse
      /\ AscendingTimes
      /\ TakenFrom(cand)
      /\ \A d \in Left(cand) : \A i \in 1..Len(returned) : d.timestamp >= returned[i].timestamp

\* entries of timestamps 3, 2, 1 are stored (newest first), the window is
\* [2, 3] and the limit is 1: the entry of timestamp 2 alone is returned
C14_Witness ==
  /\ readOp = "getLogs" /\ given.lt_id = None /\ given.gt_id = None
  /\ given.gte_timestamp = Some(2) /\ given.lte_timestamp = Some(3)
  /\ given.limit = Some(1)
  /\ Len(logs) = 3 /\ logs[1].timestamp = 3 /\ logs[2].timestamp = 2 /\ logs[3].timestamp = 1
  /\ ReturnedIds = {2}

\* C15: whatever cursor fields are given, the sequence returned by getLogs
\* and by searchLogs is ascending in the resolved sort key (id with an id
\* cursor, timestamp with timestamp bounds only); a descending fetch is always
\* reversed and an ascending fetch never is.
C15_AlwaysAscending ==
  Resolved =>
    /\ query.sortOrder.key = "_id" => AscendingIds
    /\ query.sortOrder.key = "timestamp" => AscendingTimes
    /\ query.shouldReverse <=> query.sortOrder.dir = -1
    /\ (given.lt_id # None \/ given.gt_id # None) => query.sortOrder.key = "_id"
    /\ (/\ given.lt_id = None /\ given.gt_id = None
        /\ (given.lte_timestamp # None \/ given.gte_timestamp # None)) =>
          query.sortOrder.key = "timestamp"

\* searchLogs with lte_timestamp only, on entries whose timestamps fall as
\* their ids grow: the descending fetch comes back reversed, oldest first
C15_Witness ==
  /\ readOp = "searchLogs"
  /\ given.lt_id = None /\ given.gt_id = None
  /\ given.lte_timestamp = Some(2) /\ given.gte_timestamp = None
  /\ Len(returned) = 2
  /\ returned[1].timestamp < returned[2].timestamp
  /\ Id(returned[1]) > Id(returned[2])

\* the `limit` candidates of greatest id, in ascending id order
GreatestIds(cand) ==
  /\ AscendingIds
  /\ TakenFrom(cand)
  /\ \A d \in Left(cand) : \A i \in 1..Len(returned) : d._id < Id(returned[i])
\* the `limit` candidates of latest timestamp, in ascending timestamp order
LatestTimes(cand) ==
  /\ AscendingTimes
  /\ TakenFrom(cand)
  /\ \A d \in Left(cand) : \A i \in 1..Len(returned) : d.timestamp <= returned[i].timestamp

C17_CursorPrecedence ==
  Resolved =>
    /\ given.lt_id # None =>
         /\ query.id = Some([op |-> "$lt", val |-> ObjectId(given.lt_id[1])])
         /\ query.timestamp = None
         /\ query.sortOrder.key = "_id"
         /\ TakenFrom({d \in Docs : SelectorsOk(d) /\ d._id < ObjectId(given.lt_id[1])})
    /\ (given.lt_id = None /\ given.gt_id # None) =>
         /\ query.id = Some([op |-> "$gt", val |-> ObjectId(given.gt_id[1])])
         /\ query.timestamp = None
         /\ query.sortOrder.key = "_id"
         /\ TakenFrom({d \in Docs : SelectorsOk(d) /\ d._id > ObjectId(given.gt_id[1])})
    /\ (/\ given.lt_id = None /\ given.gt_id = None
        /\ (given.lte_timestamp # None \/ given.gte_timestamp # None)) =>
         /\ query.id = None
         /\ query.sortOrder.key = "timestamp"
         /\ TakenFrom({d \in Docs : SelectorsOk(d) /\ WindowOk(d)})

\* lt_id, gt_id and both timestamp bounds are given: an entry that gt_id and
\* the window would both exclude is returned
C17_Witness ==
  /\ readOp = "getLogs"
  /\ given.lt_id = Some(ToString(3)) /\ given.gt_id = Some(ToString(1))
  /\ given.lte_timestamp = Some(2) /\ given.gte_timestamp = Some(2)
  /\ \E i \in 1..Len(returned) : Id(returned[i]) = 1 /\ returned[i].timestamp = 3

\* C18: getLogs and searchLogs never return more items than the effective
\* limit, which is 100 when filters.limit is omitted or 0 and the given limit
\* when that is positive.
C18_EffectiveLimit ==
  Resolved =>
    /\ Len(returned) <= query.limit
    /\ filters.limit = Some(query.limit)
    /\ (given.limit = None \/ given.limit = Some(0)) => query.limit = defaultLimit
    /\ (given.limit # None /\ given.limit[1] > 0) => query.limit = given.limit[1]

\* getLogs with limit 0 on a collection of 101 entries returns 100 of them
C18_Witness ==
  /\ readOp = "getLogs" /\ NoCursor
  /\ given.limit = Some(0)
  /\ Len(logs) = defaultLimit + 1
  /\ Len(returned) = defaultLimit

\* the cursor predicate a filter stands for
CursorOk(d) ==
  IF given.lt_id # None THEN d._id < ObjectId(given.lt_id[1])
  ELSE IF given.gt_id # None THEN d._id > ObjectId(given.gt_id[1])
  ELSE WindowOk(d)

\* C19: when level_json pairs and/or errsole_id are given, an entry passes
\* that part of the filter iff its (source, level) is one of the pairs or its
\* errsole_id is the given one, and that OR-set is ANDed with the hostname,
\* pid, sources and levels predicates and with the cursor predicate: the
\* result is made of entries that pass all of them, and misses none of them
\* unless the limit is reached.
C19_OrSet ==
  (Resolved /\ OrSetGiven) =>
    /\ \A i \in 1..Len(returned) :
         LET d == logs[Id(returned[i])] IN
           /\ OrSetOk(d)
           /\ HostnameOk(d) /\ PidOk(d) /\ SourcesOk(d) /\ LevelsOk(d)
           /\ CursorOk(d)
    /\ TakenFrom({d \in Docs :
         /\ OrSetOk(d)
         /\ HostnameOk(d) /\ PidOk(d) /\ SourcesOk(d) /\ LevelsOk(d)
         /\ readOp = "searchLogs" => TextOk(d)
         /\ CursorOk(d)})

\* a level pair and an errsole_id (as a string) are given: one entry is
\* returned for the pair, one for the errsole_id, a third is left out
C19_Witness ==
  /\ readOp = "getLogs"
  /\ given.level_json = Some(<<Pair("s1", "error")>>)
  /\ given.errsole_id = Some([type |-> "string", val |-> 3])
  /\ Len(logs) = 3 /\ Len(returned) = 2
  /\ \E i \in 1..2 : returned[i].level = "error" /\ returned[i].errsole_id # 3
  /\ \E i \in 1..2 : returned[i].source = "s2" /\ returned[i].errsole_id = 3

\* C20: every item returned by searchLogs satisfies the text predicate of
\* all search terms and every other predicate of the filter; the query always
\* holds the text predicate.
C20_TextAnded ==
  readOp = "searchLogs" =>
    /\ query.text # None
    /\ \A i \in 1..Len(returned) :
         LET d == logs[Id(returned[i])] IN
           /\ TextOk(d)
           /\ HostnameOk(d) /\ PidOk(d) /\ SourcesOk(d) /\ LevelsOk(d)
           /\ OrSetGiven => OrSetOk(d)
           /\ CursorOk(d)

\* two terms and a hostname are given: an entry of that hostname that holds
\* one term only is left out, an entry that holds both is returned
C20_Witness ==
  /\ readOp = "searchLogs"
  /\ searchTerms = <<"a", "b">>
  /\ given.hostname = Some("h1") /\ given.hostnames = None
  /\ returned # <<>>
  /\ \E d \in Docs : HostnameOk(d) /\ PidOk(d) /\ SourcesOk(d) /\ LevelsOk(d) /\ ~TextOk(d)

\* ---- properties of getMeta / getHostnames ----------------------------------
\* the ids of the stored documents
StoredIds == {d._id : d \in Docs}

\* C21: every item returned by getLogs / searchLogs has a string id, which is
\* the id of the stored entry whose fields it carries, and neither the engine
\* key _id nor meta; getMeta of the id of a posted and flushed entry returns
\* the meta that entry was posted with.
C21_ListAndMeta ==
  /\ Resolved =>
       \A i \in 1..Len(returned) :
         /\ "id" \in DOMAIN returned[i]
         /\ "_id" \notin DOMAIN returned[i]
         /\ "meta" \notin DOMAIN returned[i]
         /\ DOMAIN returned[i].id = {"hex"}
         /\ Id(returned[i]) \in 1..posted
         /\ returned[i].hostname = Batched[Id(returned[i])].hostname
  /\ (readOp = "getMeta" /\ ObjectId(given) \in 1..posted) =>
       returned = <<Resolve([item |-> [id |-> ObjectId(given),
                                       meta |-> Batched[ObjectId(given)].meta]])>>

\* three entries were posted and stored; getMeta of the second one's id
\* returns the meta it was posted with, which the first one does not have
C21_Witness ==
  /\ readOp = "getMeta"
  /\ posted = 3 /\ ObjectId(given) = 2
  /\ Batched[2].meta = Some("m2") /\ Batched[1].meta # Some("m2")
  /\ returned[1].value.item.meta = Some("m2")

C23_Hostnames ==
  readOp = "getHostnames" =>
    LET items == returned[1].value.items
        wanted == {d.hostname : d \in Docs} \ {Null, ""}
    IN /\ returned[1].settle = "resolved"
       /\ Range(items) = wanted
       /\ Len(items) = Cardinality(wanted)
       /\ \A i, j \in 1..Len(items) :
            i < j => Before(CodeUnits(items[i]), CodeUnits(items[j]))

\* entries of hostnames h2, null and H3 are stored in that order
C23_Witness ==
  /\ readOp = "getHostnames"
  /\ Len(logs) = 3
  /\ logs[1].hostname = "h2" /\ logs[2].hostname = Null /\ logs[3].hostname = "H3"
  /\ returned[1].value.items = <<"H3", "h2">>

\* ---- properties of the TTL calls -------------------------------------------
\* the expiring indexes of a collection that are on its TTL field
Expiring(ixs, c) ==
  {ix \in ixs : ix.coll = c /\ ix.expireAfterSeconds # None /\ TtlField(c) \in Range(ix.key)}
\* the setConfig calls and the dropIndex calls of the current call
ConfigWrites == SelectSeq(ttlCalls, LAMBDA call : call.op = "setConfig")
Drops == SelectSeq(ttlCalls, LAMBDA call : call.op = "dropIndex")
PassedArgs == {ttlPassed[i].arg : i \in 1..Len(ttlPassed)}

\* C24: ensureLogsTTL, when a logsTTL value is stored, writes no
\* configuration and passes the stored value on; when none is stored it
\* writes the string of 2592000000 (30 days in milliseconds) under logsTTL,
\* once, and passes that on; the value goes to updateLogsCollectionTTL and,
\* once that has returned, to updateNotificationsCollectionTTL.
C24_StoredOrDefault ==
  ttlPc.fn = "ensureLogsTTL" =>
    /\ ttlHad # None =>
         /\ ConfigWrites = <<>>
         /\ config = ttlHad
         /\ PassedArgs \subseteq {ttlHad[1]}
    /\ (ttlHad = None /\ result # None) =>
         /\ ConfigWrites = <<[op |-> "setConfig", coll |-> "errsole_config",
                              name |-> "logsTTL", value |-> Some(Str(DEFAULT_TTL))]>>
         /\ config = Some(Str(DEFAULT_TTL))
         /\ PassedArgs \subseteq {Str(DEFAULT_TTL)}
    /\ DEFAULT_TTL = Ms(30 * 24 * 60 * 60, 0)
    /\ result # None =>
         /\ Len(ttlPassed) >= 1
         /\ ttlPassed[1].fn = "updateLogsCollectionTTL"
    /\ "errsole_logs" \in Range(updated) =>
         /\ Len(ttlPassed) = 2
         /\ ttlPassed[2].fn = "updateNotificationsCollectionTTL"

\* the host has stored a TTL of one second and the process was started
\* again: ensureLogsTTL has passed that value to both update functions
C24_Witness ==
  /\ ttlPc = TtlAt("ensureLogsTTL", "return", "")
  /\ inits = 2
  /\ ttlHad = Some(Str(Ms(1, 0)))
  /\ ttlPassed = <<[fn |-> "updateLogsCollectionTTL", arg |-> Str(Ms(1, 0))],
                   [fn |-> "updateNotificationsCollectionTTL", arg |-> Str(Ms(1, 0))]>>
  /\ ttlCalls # <<>>

\* C25: whatever storage call of the TTL sequence throws, ensureLogsTTL
\* catches the error and returns, init() does not reject, the flag stays
\* cleared, 'ready' stays emitted, the interval stays set, and postLogs and
\* the timer's flush can run.
C25_TtlErrorsSwallowed ==
  /\ initPc \in {"l92", "ensureLogsTTL", "done"}
  /\ initError = "none"
  /\ ~isConnectionInProgress
  /\ timerScheduled
  /\ Count("ready", trace) = 1
  /\ ttlPc.fn = "ensureLogsTTL" =>
       /\ ttlPc.at # "rejected"
       /\ thrown # None => (ttlPc.at = "return" /\ caught = thrown)
  /\ initPc \in {"ensureLogsTTL", "done"} => (ENABLED TimerFire /\ ENABLED PostPush)

\* a stale expiring index was dropped, the createIndex after it failed:
\* init() has resolved all the same
C25_Witness ==
  /\ initPc = "done"
  /\ ttlPc = TtlAt("ensureLogsTTL", "return", "")
  /\ thrown = Some("storage")
  /\ Len(ttlCalls) = 1 /\ ttlCalls[1].op = "dropIndex"
  /\ faults = 1

\* C26 as stated: for every TTL value X, a call of updateLogsCollectionTTL(X)
\* that follows a completed call with the same X issues no dropIndex and no
\* createIndex.
C26_Idempotent ==
  (/\ ttlPc = TtlAt("updateLogsCollectionTTL", "return", "")
   /\ prev = Some([arg |-> ttlArg[1], at |-> "return"])) =>
    ttlCalls = <<>>

\* C27: when updateLogsCollectionTTL(ttlMs) has returned, errsole_logs has
\* exactly one expiring index on timestamp, of expireAfterSeconds ttlMs/1000;
\* an expiring timestamp index of another expiry that was there before is
\* dropped, one of the same expiry is still there and no index was dropped.
C27_TtlConverges ==
  "errsole_logs" \in Range(updated) =>
    LET target == ParseInt(ttlPassed[1].arg)
        now == Expiring(indexes, "errsole_logs")
        before == Expiring(ttlStart, "errsole_logs")
    IN /\ Cardinality(now) = 1
       /\ \A ix \in now : Ms(ix.expireAfterSeconds[1], 0) = target
       /\ \A old \in before :
            IF Ms(old.expireAfterSeconds[1], 0) # target
              THEN /\ old \notin indexes
                   /\ \E i \in 1..Len(ttlCalls) :
                        /\ ttlCalls[i].op = "dropIndex"
                        /\ ttlCalls[i].coll = "errsole_logs"
                        /\ ttlCalls[i].name = old.name
              ELSE old \in indexes /\ Drops = <<>>

\* the index expired after one second; updateLogsCollectionTTL(2000) has
\* dropped it and created one that expires after two
C27_Witness ==
  /\ ttlPc = TtlAt("updateLogsCollectionTTL", "return", "")
  /\ ttlArg = Some(Num(Ms(2, 0)))
  /\ TtlIndexDoc("errsole_logs", 1) \in ttlStart
  /\ TtlIndexDoc("errsole_logs", 2) \in indexes
  /\ Len(ttlCalls) = 2 /\ ttlCalls[1].op = "dropIndex" /\ ttlCalls[2].op = "createIndex"

\* C28 as stated: once init() has completed, without any storage failure,
\* errsole_notifications has an expiring index on created_at whose
\* expireAfterSeconds is the configured logsTTL in seconds, beside the
\* compound index on hostname, hashed_message and created_at.
C28_NotificationsExpire ==
  (/\ initPc = "done"
   /\ ttlPc.fn = "ensureLogsTTL"
   /\ faults = 0
   /\ result # None) =>
    /\ \E ix \in indexes :
         /\ ix.coll = "errsole_notifications"
         /\ ix.key = <<"created_at">>
         /\ ix.expireAfterSeconds = Some(TtlInSeconds(result[1]))
    /\ \E ix \in indexes :
         /\ ix.coll = "errsole_notifications"
         /\ ix.key = <<"hostname", "hashed_message", "created_at">>

\* the calls of insertNotificationItem that have resolved
ResolvedCalls == {c \in Callers : calls[c].settle # None /\ calls[c].settle[1].settle = "resolved"}
\* the value a resolved call returned
Returned(c) == calls[c].settle[1].value

\* C29 as stated: a call of insertNotificationItem that has resolved has
\* inserted exactly one new record and returned, as previousNotificationItem,
\* the record of greatest created_at among the records of the same hostname
\* and hashed_message that existed before its insert, absent when there was
\* none; never its own record; with a string id and without _id.
C29_PreviousItem ==
  \A c \in ResolvedCalls :
    LET call == calls[c]
        before == Fingerprint(call.atInsert, call.notification[1])
        previous == Returned(c).previousNotificationItem
    IN /\ call.inserted[1] \in notifications
       /\ call.inserted[1] \notin call.atInsert
       /\ previous # FormatNotification(call.inserted)
       /\ IF before = {} THEN previous = None
          ELSE \E d \in Latest(before) : previous = FormatNotification(Some(d))
       /\ previous # None =>
            /\ DOMAIN previous[1] = {"id", "errsole_id", "hostname", "hashed_message",
                                     "created_at", "updated_at"}
            /\ previous[1].id \in {ToString(id) : id \in 1..lastId}

\* C30 as stated: the todayNotificationCount of a resolved call counts the
\* record the call inserted: it is at least 1 and is 1 + the number of
\* earlier records of the same hostname and hashed_message, of the UTC day
\* of the count, that the call could see, whatever the clock read at each step.
C30_CountsOwnRecord ==
  \A c \in ResolvedCalls :
    LET call == calls[c]
        today == call.startOfDayUTC[1]
        earlier == {d \in Fingerprint(call.snapshot, call.notification[1]) :
                      StartOfDayUTC(d.created_at) = today}
    IN /\ Returned(c).todayNotificationCount >= 1
       /\ Returned(c).todayNotificationCount = 1 + Cardinality(earlier)

\* the calls of insertNotificationItem that have rejected
RejectedCalls == {c \in Callers : calls[c].settle # None /\ calls[c].settle[1].settle = "rejected"}

\* C31: when an operation of the transaction fails (the lookup, the insert,
\* the count or the commit) the call rejects with that error, the committed
\* records and with them the same-day count of the fingerprint are as before,
\* the record the call had inserted is never visible, and the session is
\* ended when the call settles, resolved or rejected.
C31_FailureAtomic ==
  [][\A c \in Callers :
       LET call == calls[c]
           after == calls'[c]
           n == call.notification[1]
       IN /\ (call.at # "settled" /\ after.at = "settled") =>
               /\ after.session = "ended"
               /\ after.settle[1].settle = "rejected" =>
                    /\ call.at \in {"findOne", "insertOne", "countDocuments", "commit"}
                    /\ after.settle[1].value = call.at
                    /\ notifications' = notifications
                    /\ CountDocuments(notifications', n, StartOfDayUTC(clock), EndOfDayUTC(clock))
                         = CountDocuments(notifications, n, StartOfDayUTC(clock), EndOfDayUTC(clock))
          /\ (after.at = "settled" /\ after.settle[1].settle = "rejected") =>
               Range(after.inserted) \cap notifications' = {}]_vars

\* the count of a call has failed after its insert: the call has rejected,
\* its session is ended and the inserted record is not in the collection
C31_Witness ==
  \E c \in RejectedCalls :
    /\ calls[c].settle = Some(Throw("countDocuments"))
    /\ calls[c].inserted # None
    /\ calls[c].inserted[1] \notin notifications
    /\ calls[c].session = "ended"
    /\ notifications # {}

\* C32 as stated: the lookup and the count of one call read the same
\* snapshot, whatever other calls commit in between: the returned count is
\* the number of records of the fingerprint and of the day of the count that
\* the lookup could see, plus one, and previousNotificationItem is absent
\* exactly when the lookup could see no record of the fingerprint.
C32_SameSnapshot ==
  \A c \in ResolvedCalls :
    LET call == calls[c]
        seen == Fingerprint(call.snapshot, call.notification[1])
        sameDay == {d \in seen : StartOfDayUTC(d.created_at) = call.startOfDayUTC[1]}
    IN /\ Returned(c).todayNotificationCount = Cardinality(sameDay) + 1
       /\ (Returned(c).previousNotificationItem = None) <=> (seen = {})

\* C39 as stated: when the k calls made so far, all for one hostname and
\* hashed_message, have all committed within the first UTC day on a ledger
\* that was empty, in whatever interleaving, the counts they returned are
\* pairwise distinct and are exactly 1..k, and exactly one call returned no
\* previousNotificationItem.
C39_CountsAreOneToK ==
  LET k == Cardinality(ResolvedCalls) IN
  (/\ started = k
   /\ \A c, d \in ResolvedCalls : calls[c].notification = calls[d].notification
   /\ StartOfDayUTC(clock) = 0) =>
    /\ \A c, d \in ResolvedCalls :
         c # d => Returned(c).todayNotificationCount # Returned(d).todayNotificationCount
    /\ {Returned(c).todayNotificationCount : c \in ResolvedCalls} = 1..k
    /\ k >= 1 =>
         Cardinality({c \in ResolvedCalls : Returned(c).previousNotificationItem = None}) = 1

\* C38 as stated: errsole_logs never has more than one expiring index on
\* timestamp, and when a call of updateLogsCollectionTTL has failed the
\* collection has the expiring index it had when the call began; a
\* createIndex that fails after the dropIndex does not leave it without one.
C38_FailureKeepsTtlIndex ==
  /\ Cardinality(Expiring(indexes, "errsole_logs")) <= 1
  /\ (/\ thrown # None
      /\ ttlPassed # <<>>
      /\ ttlPassed[Len(ttlPassed)].fn = "updateLogsCollectionTTL"
      /\ "errsole_logs" \notin Range(updated)) =>
       /\ Expiring(indexes, "errsole_logs") = Expiring(ttlStart, "errsole_logs")
       /\ Expiring(ttlStart, "errsole_logs") # {} => Expiring(indexes, "errsole_logs") # {}

\* C37 as stated: a call of getLogs or searchLogs whose level_json is an
\* empty list, without errsole_id, builds the query it builds when level_json
\* is left out: the query has no $or, and no empty $or in particular.
C37_EmptyLevelJson ==
  (/\ readOp # "none"
   /\ given.level_json = Some(<<>>)
   /\ ~TruthyId(given.errsole_id)) =>
    /\ query.or = None
    /\ query \in {BuildQuery(op, searchTerms, [given EXCEPT !.level_json = None]) :
                    op \in {"getLogs", "searchLogs"}}

\* C35: of the flushLogs calls that run together, the one that reaches line
\* 220 while entries are pending takes them all in one insertMany and leaves
\* the buffer empty; a call that reaches it on the empty buffer returns {}
\* with no storage call; the buffer gets entries only from postLogs, so the
\* calls that follow a claim find it empty unless postLogs ran in between.
C35_ConcurrentFlush ==
  [][/\ \A f \in FlushIds :
          /\ (tasks[f].pc # "insert" /\ tasks'[f].pc = "insert") =>
               /\ pendingLogs # <<>>
               /\ tasks'[f].batch = pendingLogs
               /\ pendingLogs' = <<>>
               /\ insertCalls' = Append(insertCalls, pendingLogs)
               /\ \A g \in FlushIds \ {f} : tasks'[g] = tasks[g]
          /\ (tasks[f].pc = "poll" /\ tasks'[f].pc = "idle") =>
               /\ pendingLogs = <<>> /\ pendingLogs' = <<>>
               /\ insertCalls' = insertCalls /\ logs' = logs
               /\ settled' = Settled(tasks[f].trigger, "resolved", "{}", 0)
     /\ (settled' # settled /\ settled'.calls = 0) =>
          /\ pendingLogs = <<>> /\ pendingLogs' = <<>>
          /\ insertCalls' = insertCalls /\ logs' = logs
          /\ settled'.settle = "resolved" /\ settled'.value = "{}"
     /\ (pendingLogs' # pendingLogs /\ pendingLogs' # <<>>) =>
          (posted' > posted /\ tasks' = tasks)]_vars

\* the size-triggered flush has claimed the entries and awaits insertMany;
\* the timer's flush, called meanwhile, found the buffer empty and returned {}
C35_Witness ==
  /\ \E f \in FlushIds :
       /\ tasks[f].pc = "insert"
       /\ tasks[f].trigger = "size"
       /\ Len(tasks[f].batch) >= 2
  /\ settled = Settled("timer", "resolved", "{}", 0)
  /\ pendingLogs = <<>>

\* C36: once init() has cleared the flag every flushLogs call in flight
\* eventually resolves.  When init() has rejected the flag stays true for
\* ever, no interval is set, every flushLogs call made stays in its wait
\* loop and none has resolved, and every entry given to postLogs is still in
\* the pending buffer, with no insertMany made.
C36_ResolvesOrPollsForever ==
  /\ \A f \in FlushIds :
       (InFlight(f) /\ ~isConnectionInProgress) ~> ~InFlight(f)
  /\ [](initPc = "rejected" =>
          /\ initError \in {"connect", "ensureCollections"}
          /\ isConnectionInProgress
          /\ ~timerScheduled
          /\ \A f \in FlushIds : tasks[f].pc \in {"idle", "poll"}
          /\ settled.settle = "none"
          /\ pendingLogs = Entries(1, posted)
          /\ insertCalls = <<>> /\ logs = <<>>)
  /\ [][initPc = "rejected" =>
          /\ initPc' = "rejected"
          /\ isConnectionInProgress'
          /\ \A f \in FlushIds : tasks[f].pc = "poll" => tasks'[f].pc = "poll"]_vars

\* ensureCollections has failed: a flushLogs call polls and every entry that
\* can be posted waits in the buffer
C36_Witness ==
  /\ initPc = "rejected" /\ initError = "ensureCollections"
  /\ \E f \in FlushIds : tasks[f].pc = "poll"
  /\ Len(pendingLogs) = MaxEntries

\* the last call ended with the TypeError of a use of the undefined this.db
DbDereferenced ==
  /\ readOp # "none"
  /\ Len(returned) = 1
  /\ "settle" \in DOMAIN returned[1]
  /\ IF returned[1].settle = "rejected"
       THEN returned[1].value = "TypeError"
       ELSE "err" \in DOMAIN returned[1].value

\* C33 as stated: no operation uses this.db before init() has set it: a
\* flushLogs call reaches insertMany only on a handle, and no call of
\* getLogs, searchLogs, getMeta, getHostnames, getConfig, setConfig or
\* insertNotificationItem made while init() is running fails on the
\* undefined handle.
C33_SafeDuringInit ==
  /\ \A f \in FlushIds : tasks[f].pc = "insert" => db = "handle"
  /\ initPc = "connect" => ~DbDereferenced

\* the four read operations of the logs collection
LogReads == {"getLogs", "searchLogs", "getMeta", "getHostnames"}

InBuffer ==
  Range(pendingLogs) \cup UNION {Range(tasks[f].batch) : f \in {g \in FlushIds : tasks[g].pc = "insert"}}
\* the entries the last getLogs / searchLogs call returned
ListedEntries ==
  IF readOp \in {"getLogs", "searchLogs"} /\ ~DbDereferenced
    THEN {returned[i].errsole_id : i \in 1..Len(returned)}
    ELSE {}

====
